---- MODULE Spec2Model ----
(***************************************************************************)
(* Model of the O(n)-alyser complexity estimation engine:                  *)
(*   profiles.ts  (comment stripping, PROFILES)                            *)
(*   analyse.ts   (lexical path: loop tracker, recursion, dominance)       *)
(*   ir.ts        (CST adapter layer: buildNormalizedIr)                   *)
(*   treeSitter.ts(CST path, grammar cache, fallback controller)           *)
(*   web/src/engine/analyse.ts (earlier draft of the lexical path)         *)
(*                                                                         *)
(* A source text is a sequence of tokens.  Every punctuation character,    *)
(* blank and line break is a token of its own; a maximal run of word       *)
(* characters (an identifier, keyword or number) is one token.  The text   *)
(* the program sees is the concatenation of the tokens.  The regular       *)
(* expressions of the source are translated to operators on such           *)
(* sequences.                                                              *)
(***************************************************************************)
EXTENDS Integers, Sequences, FiniteSets, Bags, TLC

(***************************************************************************)
(* Tokens                                                                  *)
(***************************************************************************)
NL == "\n"
SP == " "

\* \s
IsSpace(t) == t \in {SP, NL}

\* Word tokens that match ^[A-Za-z_]\w*$
IdentToks ==
    {"for", "while", "do", "def", "in", "range", "return", "int", "static",
     "i", "j", "n", "x", "f", "g", "log", "sorted", "sort", "qsort",
     "Arrays", "arr", "set", "malloc", "HashMap"}

\* Word tokens that match ^\d+$
NumToks == {"0", "1", "2", "10"}

IsIdent(t) == t \in IdentToks
IsNum(t) == t \in NumToks
\* \w+
IsWord(t) == IsIdent(t) \/ IsNum(t)

\* The characters of a token: a word of several characters is spelled out,
\* every other token is one character.
TokChars(t) ==
    CASE   t = "for" -> <<"f", "o", "r">>
      [] t = "while" -> <<"w", "h", "i", "l", "e">>
      [] t = "do" -> <<"d", "o">>
      [] t = "def" -> <<"d", "e", "f">>
      [] t = "in" -> <<"i", "n">>
      [] t = "range" -> <<"r", "a", "n", "g", "e">>
      [] t = "return" -> <<"r", "e", "t", "u", "r", "n">>
      [] t = "int" -> <<"i", "n", "t">>
      [] t = "static" -> <<"s", "t", "a", "t", "i", "c">>
      [] t = "log" -> <<"l", "o", "g">>
      [] t = "sorted" -> <<"s", "o", "r", "t", "e", "d">>
      [] t = "sort" -> <<"s", "o", "r", "t">>
      [] t = "qsort" -> <<"q", "s", "o", "r", "t">>
      [] t = "Arrays" -> <<"A", "r", "r", "a", "y", "s">>
      [] t = "arr" -> <<"a", "r", "r">>
      [] t = "set" -> <<"s", "e", "t">>
      [] t = "malloc" -> <<"m", "a", "l", "l", "o", "c">>
      [] t = "HashMap" -> <<"H", "a", "s", "h", "M", "a", "p">>
      [] t = "10" -> <<"1", "0">>
      [] OTHER -> << t >>

\* Number of characters of a token (String.length of its text).
TokLen(t) == Len(TokChars(t))

\* Case folding for the regular expressions with the i flag.
LowerTok(t) ==
    CASE t = "Arrays" -> "arrays"
      [] t = "HashMap" -> "hashmap"
      [] OTHER -> t

\* s[j], or "" past either end.
At(s, j) == IF j \in 1..Len(s) THEN s[j] ELSE ""

\* `const x = e; ...`: the rest of a function body, F, evaluated with x bound
\* to the value of e.
With(e, F(_)) == F(e)

\* \s* from index i: the index of the first token at or after i that is not
\* white space (Len(s)+1 when there is none).
Skip(s, i) ==
    CHOOSE j \in i..(Len(s) + 1) :
        /\ \A m \in i..(j - 1) : IsSpace(s[m])
        /\ ~IsSpace(At(s, j))

\* Tokens i..j of s (empty when j < i).
Slice(s, i, j) == IF j < i THEN << >> ELSE SubSeq(s, i, j)

\* String length of the text of s[1..k-1]: the character offset of token k.
Offset(s, k) ==
    Cardinality(UNION {{<<m, c>> : c \in 1..TokLen(s[m])} : m \in 1..(k - 1)})

\* String.prototype.trim
RECURSIVE TrimLeft(_)
TrimLeft(s) == IF s # << >> /\ IsSpace(Head(s)) THEN TrimLeft(Tail(s)) ELSE s
RECURSIVE TrimRight(_)
TrimRight(s) ==
    IF s # << >> /\ IsSpace(s[Len(s)]) THEN TrimRight(SubSeq(s, 1, Len(s) - 1)) ELSE s
Trim(s) == TrimRight(TrimLeft(s))

\* text.split("\n")
RECURSIVE SplitLines(_)
SplitLines(s) ==
    IF \E k \in 1..Len(s) : s[k] = NL
    THEN LET k == CHOOSE k \in 1..Len(s) : s[k] = NL /\ \A m \in 1..(k - 1) : s[m] # NL
         IN  << Slice(s, 1, k - 1) >> \o SplitLines(Slice(s, k + 1, Len(s)))
    ELSE << s >>

\* lines.join("\n")
RECURSIVE JoinLines(_)
JoinLines(ls) ==
    IF ls = << >> THEN << >>
    ELSE IF Len(ls) = 1 THEN ls[1]
    ELSE ls[1] \o << NL >> \o JoinLines(Tail(ls))

(***************************************************************************)
(* profiles.ts: comment stripping                                          *)
(***************************************************************************)
\* code.replace(/<open>[\s\S]*?<close>/g, "") for an opener and a closer given
\* as token sequences: scanning from the left, an opener at i that has a
\* closer starting at or after i + Len(open) is removed up to the end of the
\* nearest such closer, and the scan goes on behind it.
HasAt(s, i, pat) ==
    /\ i + Len(pat) - 1 <= Len(s)
    /\ \A k \in 1..Len(pat) : s[i + k - 1] = pat[k]

RECURSIVE ReplaceBlock(_, _, _, _)
ReplaceBlock(s, i, open, close) ==
    LET matches(p) ==
            /\ HasAt(s, p, open)
            /\ \E j \in (p + Len(open))..Len(s) : HasAt(s, j, close)
    IN  IF \E p \in i..Len(s) : matches(p)
        THEN LET p == CHOOSE p \in i..Len(s) :
                          matches(p) /\ \A m \in i..(p - 1) : ~matches(m)
                 j == CHOOSE j \in (p + Len(open))..Len(s) :
                          /\ HasAt(s, j, close)
                          /\ \A m \in (p + Len(open))..(j - 1) : ~HasAt(s, m, close)
             IN  Slice(s, i, p - 1) \o ReplaceBlock(s, j + Len(close), open, close)
        ELSE Slice(s, i, Len(s))

\* code.replace(/<open>.*$/gm, ""): from an opener to the end of its line.
RECURSIVE ReplaceLine(_, _, _)
ReplaceLine(s, i, open) ==
    IF \E p \in i..Len(s) : HasAt(s, p, open)
    THEN LET p == CHOOSE p \in i..Len(s) :
                      HasAt(s, p, open) /\ \A m \in i..(p - 1) : ~HasAt(s, m, open)
             e == CHOOSE e \in p..(Len(s) + 1) :
                      /\ (e = Len(s) + 1 \/ s[e] = NL)
                      /\ \A m \in p..(e - 1) : s[m] # NL
         IN  Slice(s, i, p - 1) \o ReplaceLine(s, e, open)
    ELSE Slice(s, i, Len(s))

removeCComments(code) ==
    ReplaceLine(ReplaceBlock(code, 1, <<"/", "*">>, <<"*", "/">>), 1, <<"/", "/">>)

removeJavaComments(code) ==
    ReplaceLine(ReplaceBlock(code, 1, <<"/", "*">>, <<"*", "/">>), 1, <<"/", "/">>)

DQ3 == <<"\"", "\"", "\"">>
SQ3 == <<"'", "'", "'">>

removePythonComments(code) ==
    ReplaceLine(ReplaceBlock(ReplaceBlock(code, 1, DQ3, DQ3), 1, SQ3, SQ3), 1, <<"#">>)

Langs == {"python", "java", "c"}

\* PROFILES[lang].usesBraces
usesBraces(lang) == lang \in {"java", "c"}

\* PROFILES[lang].removeComments
removeComments(lang, code) ==
    CASE lang = "python" -> removePythonComments(code)
      [] lang = "java" -> removeJavaComments(code)
      [] lang = "c" -> removeCComments(code)

(***************************************************************************)
(* profiles.ts: PROFILES.  The loop regexes carry the g flag, so each is a  *)
(* RegExp object with a lastIndex; a regex is named <<lang, k>>, the k-th   *)
(* entry of PROFILES[lang].loopRegexes.  The sort regexes have no g flag.   *)
(***************************************************************************)
\* PROFILES[lang].loopRegexes: /\bfor\b/g, /\bwhile\b/g (, /\bdo\b/g)
loopRegexes(lang) ==
    IF lang = "python" THEN <<"for", "while">> ELSE <<"for", "while", "do">>

RegexIds == {<<l, k>> : l \in Langs, k \in 1..3} \ {<<"python", 3>>}

\* The word a loop regex looks for.
RegexWord(re) == loopRegexes(re[1])[re[2]]

\* lastIndex of every loop regex right after module load
ZeroIndex == [re \in RegexIds |-> 0]

\* RegExp.prototype.test of a g-flagged /\bw\b/: the search starts at
\* lastIndex; a hit leaves lastIndex behind the match, a miss resets it to 0.
RegexTest(idx, re, s) ==
    LET w == RegexWord(re)
        hits == {k \in 1..Len(s) : s[k] = w /\ Offset(s, k) >= idx[re]}
    IN  IF hits = {}
        THEN [ok |-> FALSE, idx |-> [idx EXCEPT ![re] = 0]]
        ELSE LET k == CHOOSE k \in hits : \A m \in hits : k <= m
             IN  [ok |-> TRUE, idx |-> [idx EXCEPT ![re] = Offset(s, k) + TokLen(w)]]

\* PROFILES[lang].sortRegexes.some(re => re.test(text)); they are stateless.
WordThenParen(s, w) ==
    \E k \in 1..Len(s) : LowerTok(s[k]) = w /\ At(s, Skip(s, k + 1)) = "("

DotSortParen(s) ==
    \E k \in 1..Len(s) :
        /\ s[k] = "."
        /\ LowerTok(At(s, k + 1)) = "sort"
        /\ At(s, Skip(s, k + 2)) = "("

DottedSort(s, w) ==
    \E k \in 1..Len(s) :
        LowerTok(s[k]) = w /\ At(s, k + 1) = "." /\ LowerTok(At(s, k + 2)) = "sort"

sortRegexes(lang, s) ==
    CASE lang = "python" -> WordThenParen(s, "sorted") \/ DotSortParen(s)
      [] lang = "java" ->
            DottedSort(s, "arrays") \/ DottedSort(s, "collections") \/ DotSortParen(s)
      [] lang = "c" -> WordThenParen(s, "qsort")

(***************************************************************************)
(* analyse.ts                                                              *)
(***************************************************************************)
\* A faulty countMatches: it counts with a loop of re.exec, which starts at
\* lastIndex as the call before left it.
countMatchesFromLastIndex(idx, text, re) ==
    [n |-> Cardinality({k \in 1..Len(text) :
                           text[k] = RegexWord(re) /\ Offset(text, k) >= idx[re]}),
     idx |-> [idx EXCEPT ![re] = 0]]

\* (text.match(re) ?? []).length for a g-flagged regex: String.prototype.match
\* sets lastIndex to 0, collects every match and leaves lastIndex at 0.
countMatches(idx, text, re) ==
    [n |-> Cardinality({k \in 1..Len(text) : text[k] = RegexWord(re)}),
     idx |-> [idx EXCEPT ![re] = 0]]

safeTest(idx, re, s) == RegexTest([idx EXCEPT ![re] = 0], re, s)

BIG_O_RANK ==
    [b \in {"O(?)", "O(1)", "O(log n)", "O(n)", "O(n log n)", "O(n^2)", "O(n^3)",
            "O(2^n)", "O(n!)"} |->
        CASE b = "O(?)" -> -1
          [] b = "O(1)" -> 0
          [] b = "O(log n)" -> 1
          [] b = "O(n)" -> 2
          [] b = "O(n log n)" -> 3
          [] b = "O(n^2)" -> 4
          [] b = "O(n^3)" -> 5
          [] b = "O(2^n)" -> 6
          [] b = "O(n!)" -> 7]

\* BIG_O_RANK[bigO] ?? -1
rankBigO(bigO) == IF bigO \in DOMAIN BIG_O_RANK THEN BIG_O_RANK[bigO] ELSE -1

\* A faulty reduce: >= in place of >, so of two candidates of one rank the
\* later wins.
RECURSIVE ReduceKeepsLatest(_, _, _)
ReduceKeepsLatest(list, i, best) ==
    IF i > Len(list) THEN best
    ELSE ReduceKeepsLatest(list, i + 1,
                           IF rankBigO(list[i].bigO) >= rankBigO(best.bigO) THEN list[i]
                           ELSE best)

\* list.reduce((best, cur) => rank(cur) > rank(best) ? cur : best, init)
RECURSIVE Reduce(_, _, _)
Reduce(list, i, best) ==
    IF i > Len(list) THEN best
    ELSE Reduce(list, i + 1,
                IF rankBigO(list[i].bigO) > rankBigO(best.bigO) THEN list[i] ELSE best)

pickDominant(candidates) ==
    LET known == SelectSeq(candidates, LAMBDA c : c.bigO # "O(?)")
        list == IF Len(known) > 0 THEN known ELSE candidates
    IN  Reduce(list, 1,
               IF Len(list) > 0 THEN list[1] ELSE [bigO |-> "O(?)", confidence |-> 25])

\* extractLoopBound returns the captured text, or null: no capture is empty,
\* so the empty sequence stands for null.
Null == << >>

\* [^,)]+ from index q: the tokens up to the next "," or ")".
CaptureArg(t, q) ==
    LET e == CHOOSE e \in q..(Len(t) + 1) :
                 /\ (e = Len(t) + 1 \/ t[e] \in {",", ")"})
                 /\ \A m \in q..(e - 1) : t[m] \notin {",", ")"}
    IN  Slice(t, q, e - 1)

\* /\bfor\b.+?\bin\b\s*range\s*\(\s*([^,)]+)\s*/
PyForBound(t) ==
    LET arg(j) ==
            LET r == Skip(t, j + 1)
                p == Skip(t, r + 1)
                q == Skip(t, p + 1)
            IN  IF At(t, j) = "in" /\ At(t, r) = "range" /\ At(t, p) = "("
                THEN IF CaptureArg(t, q) # << >> THEN CaptureArg(t, q)
                     ELSE IF q > p + 1 THEN << t[q - 1] >> ELSE Null
                ELSE Null
        ok(k) == t[k] = "for" /\ \E j \in (k + 2)..Len(t) : arg(j) # Null
    IN  IF \E k \in 1..Len(t) : ok(k)
        THEN LET k == CHOOSE k \in 1..Len(t) : ok(k) /\ \A m \in 1..(k - 1) : ~ok(m)
                 j == CHOOSE j \in (k + 2)..Len(t) :
                          arg(j) # Null /\ \A m \in (k + 2)..(j - 1) : arg(m) = Null
             IN  arg(j)
        ELSE Null

\* /\bwhile\b.+<\s*([A-Za-z_]\w*)/ : .+ is greedy, the last "<" wins
PyWhileBound(t) ==
    LET lt(j) == t[j] = "<" /\ IsIdent(At(t, Skip(t, j + 1)))
        ok(k) == t[k] = "while" /\ \E j \in (k + 2)..Len(t) : lt(j)
    IN  IF \E k \in 1..Len(t) : ok(k)
        THEN LET k == CHOOSE k \in 1..Len(t) : ok(k) /\ \A m \in 1..(k - 1) : ~ok(m)
                 j == CHOOSE j \in (k + 2)..Len(t) :
                          lt(j) /\ \A m \in (j + 1)..Len(t) : ~lt(m)
             IN  << t[Skip(t, j + 1)] >>
        ELSE Null

\* /\bfor\b\s*\(.*?<\s*([A-Za-z_]\w*)\s*;/ (semi = TRUE) and
\* /\bwhile\b\s*\(.*?<\s*([A-Za-z_]\w*)/   (semi = FALSE): the first "<" wins
CLoopBound(t, w, semi) ==
    LET lt(j) ==
            LET q == Skip(t, j + 1)
            IN  /\ t[j] = "<"
                /\ IsIdent(At(t, q))
                /\ (semi => At(t, Skip(t, q + 1)) = ";")
        ok(k) ==
            LET p == Skip(t, k + 1)
            IN  t[k] = w /\ At(t, p) = "(" /\ \E j \in (p + 1)..Len(t) : lt(j)
    IN  IF \E k \in 1..Len(t) : ok(k)
        THEN LET k == CHOOSE k \in 1..Len(t) : ok(k) /\ \A m \in 1..(k - 1) : ~ok(m)
                 p == Skip(t, k + 1)
                 j == CHOOSE j \in (p + 1)..Len(t) :
                          lt(j) /\ \A m \in (p + 1)..(j - 1) : ~lt(m)
             IN  << t[Skip(t, j + 1)] >>
        ELSE Null

\* `if (m?.[1]) return m[1]` and the pattern tried after it
OrElse(first, second) == IF first # Null THEN first ELSE second

extractLoopBound(line, lang) ==
    IF lang = "python"
    THEN OrElse(PyForBound(Trim(line)), PyWhileBound(Trim(line)))
    ELSE OrElse(CLoopBound(Trim(line), "for", TRUE), CLoopBound(Trim(line), "while", FALSE))

classifyBound(bound) ==
    LET clean == Trim(bound)
    IN  IF clean = << >> THEN "n"
        ELSE IF Len(clean) = 1 /\ IsNum(clean[1]) THEN "constant"
        ELSE IF \E k \in 1..Len(clean) : LowerTok(clean[k]) \in {"log", "ln"} THEN "log n"
        ELSE "n"

\* <op>\s*\d+ at index i, for an operator given as a token sequence
OpThenDigits(s, i, op) ==
    HasAt(s, i, op) /\ IsNum(At(s, Skip(s, i + Len(op))))

\* /(?:\/\/=|\*=)\s*\d+/ at index i
PyLogOpAt(s, i) ==
    OpThenDigits(s, i, <<"/", "/", "=">>) \/ OpThenDigits(s, i, <<"*", "=">>)

\* /(?:\*=|\/=|>>=|<<=)\s*\d+/ at index i
CLogOpAt(s, i) ==
    \/ OpThenDigits(s, i, <<"*", "=">>)
    \/ OpThenDigits(s, i, <<"/", "=">>)
    \/ OpThenDigits(s, i, <<">", ">", "=">>)
    \/ OpThenDigits(s, i, <<"<", "<", "=">>)

detectLogLoop(line, lang) ==
    LET t == Trim(line)
    IN  IF lang = "python"
        THEN \E k \in 1..Len(t) :
                 LowerTok(t[k]) = "while" /\ \E i \in (k + 2)..Len(t) : PyLogOpAt(t, i)
        ELSE /\ \E k \in 1..Len(t) : t[k] \in {"for", "while"}
             /\ \E i \in 1..Len(t) : CLogOpAt(t, i)

detectGlobalLogProgression(text, lang) ==
    IF lang = "python"
    THEN \E i \in 1..Len(text) : PyLogOpAt(text, i)
    ELSE \E i \in 1..Len(text) : CLogOpAt(text, i)

\* One match of functionRe starting at token i:
\*   /\b(?:def|[A-Za-z_]\w*\s+)([A-Za-z_]\w*)\s*\([^)]*\)\s*[{:]?/g
\* a word, white space, the captured name, "(", anything up to the next ")".
\* (The alternative "def" needs the name to follow "def" without a blank, which
\* no token of IdentToks gives: none starts with "def" and goes on.)
FnNameIdx(s, i) == Skip(s, i + 1)

FnMatchAt(s, i) ==
    LET j == FnNameIdx(s, i)
        p == Skip(s, j + 1)
    IN  /\ IsIdent(At(s, i))
        /\ j > i + 1
        /\ IsIdent(At(s, j))
        /\ At(s, p) = "("
        /\ \E c \in (p + 1)..Len(s) : s[c] = ")"

\* The index behind the match that starts at i.
FnMatchEnd(s, i) ==
    LET p == Skip(s, FnNameIdx(s, i) + 1)
        c == CHOOSE c \in (p + 1)..Len(s) :
                 s[c] = ")" /\ \A m \in (p + 1)..(c - 1) : s[m] # ")"
        q == Skip(s, c + 1)
    IN  IF At(s, q) \in {"{", ":"} THEN q + 1 ELSE q

\* while ((m = functionRe.exec(text))) names.add(m[1]): the names in the order
\* they were first added (the iteration order of the Set).
RECURSIVE FunctionNames(_, _, _)
FunctionNames(s, i, names) ==
    IF \E p \in i..Len(s) : FnMatchAt(s, p)
    THEN LET p == CHOOSE p \in i..Len(s) :
                      FnMatchAt(s, p) /\ \A m \in i..(p - 1) : ~FnMatchAt(s, m)
             nm == s[FnNameIdx(s, p)]
         IN  FunctionNames(s, FnMatchEnd(s, p),
                           IF \E k \in 1..Len(names) : names[k] = nm
                           THEN names ELSE Append(names, nm))
    ELSE names

\* text.match(new RegExp(`\\b${escaped}\\s*\\(`, "g")) ?? []
CallSites(s, name) == {k \in 1..Len(s) : s[k] = name /\ At(s, Skip(s, k + 1)) = "("}

\* /\breturn\b[\s\S]*\*\s*[A-Za-z_]\w*\s*\(/m
ReturnTimesCall(s) ==
    \E k \in 1..Len(s) :
        /\ s[k] = "return"
        /\ \E j \in (k + 1)..Len(s) :
               LET q == Skip(s, j + 1)
               IN  s[j] = "*" /\ IsIdent(At(s, q)) /\ At(s, Skip(s, q + 1)) = "("

\* The body of the for loop of detectRecursionComplexity for one name:
\* "" stands for `continue`.
RecursionClassOf(text, name) ==
    IF Cardinality(CallSites(text, name)) <= 1 THEN ""
    ELSE IF ReturnTimesCall(text) THEN "O(n!)"
    ELSE IF Cardinality(CallSites(text, name)) >= 3 THEN "O(2^n)"
    ELSE "O(n)"

\* for (const name of names) { ... return ... }: the first name that is not
\* skipped decides.  "" stands for null.
RECURSIVE FirstRecursion(_, _, _)
FirstRecursion(text, names, k) ==
    IF k > Len(names) THEN ""
    ELSE IF RecursionClassOf(text, names[k]) # "" THEN RecursionClassOf(text, names[k])
    ELSE FirstRecursion(text, names, k + 1)

detectRecursionComplexity(text) == FirstRecursion(text, FunctionNames(text, 1, << >>), 1)

canonicalLoopComplexity(maxDepth, hasLogLoop, loopCount) ==
    IF loopCount = 0 THEN "O(1)"
    ELSE IF maxDepth >= 3 THEN "O(n^3)"
    ELSE IF maxDepth = 2 THEN "O(n^2)"
    ELSE IF hasLogLoop THEN "O(log n)"
    ELSE "O(n)"

\* Number.prototype.toString for the small numbers the messages hold
Digit == <<"1", "2", "3", "4", "5", "6", "7", "8", "9">>
ToStr(n) ==
    IF n = 0 THEN "0"
    ELSE IF n < 10 THEN Digit[n]
    ELSE (IF n \div 10 < 10 THEN Digit[n \div 10] ELSE "?")
         \o (IF n % 10 = 0 THEN "0" ELSE Digit[n % 10])

\* profile.loopRegexes.some(re => safeTest(re, t)): the regexes are tried in
\* order and the first hit ends the search.
RECURSIVE SomeLoop(_, _, _, _)
SomeLoop(idx, lang, t, k) ==
    IF k > Len(loopRegexes(lang)) THEN [ok |-> FALSE, idx |-> idx]
    ELSE LET r == safeTest(idx, <<lang, k>>, t)
         IN  IF r.ok THEN r ELSE SomeLoop(r.idx, lang, t, k + 1)

\* profile.loopRegexes.reduce((sum, re) => sum + countMatches(text, re), 0)
RECURSIVE CountLoops(_, _, _, _)
CountLoops(idx, lang, text, k) ==
    IF k > Len(loopRegexes(lang)) THEN [n |-> 0, idx |-> idx]
    ELSE LET r == countMatches(idx, text, <<lang, k>>)
             rest == CountLoops(r.idx, lang, text, k + 1)
         IN  [n |-> r.n + rest.n, idx |-> rest.idx]

CountTok(t, c) == Cardinality({k \in 1..Len(t) : t[k] = c})

Max(a, b) == IF a > b THEN a ELSE b

\* while (stack.length && cond(stack[top].level)) stack.pop()
RECURSIVE PopWhile(_, _, _)
PopWhile(stack, bound, strict) ==
    IF stack # << >> /\ (IF strict THEN stack[Len(stack)].level > bound
                                  ELSE stack[Len(stack)].level >= bound)
    THEN PopWhile(SubSeq(stack, 1, Len(stack) - 1), bound, strict)
    ELSE stack

\* line.match(/^\s*/)?.[0].length
RECURSIVE Indent(_)
Indent(line) ==
    IF line # << >> /\ IsSpace(Head(line)) THEN 1 + Indent(Tail(line)) ELSE 0

\* The state of the tracker before the first line.
TrackerInit(idx) ==
    [stack |-> << >>, maxDepth |-> 0, hasLogLoop |-> FALSE, braceDepth |-> 0,
     chain |-> << >>, idx |-> idx]

\* `const bound = extractLoopBound(t, lang) ?? "n"`
BoundOf(t, lang) == OrElse(extractLoopBound(t, lang), <<"n">>)

\* The tracker after a loop line has pushed its frame.
LoopLine(st, t, lang, draft, pushed, braceDepth, idx) ==
    [stack |-> pushed,
     maxDepth |-> Max(st.maxDepth, Len(pushed)),
     hasLogLoop |-> st.hasLogLoop \/ detectLogLoop(t, lang)
                       \/ (~draft /\ classifyBound(pushed[Len(pushed)].bound) = "log n"),
     braceDepth |-> braceDepth,
     chain |-> IF draft /\ Len(pushed) > Len(st.chain)
               THEN [k \in 1..Len(pushed) |-> pushed[k].bound] ELSE st.chain,
     idx |-> idx]

\* A faulty brace branch: the opening braces of the line are added to the
\* count before the scopes are popped and the loop is detected.
BraceLineOpensFirst(st, line, lang, draft) ==
    With(Trim(line), LAMBDA t :
    With(Max(0, st.braceDepth - CountTok(t, "}")) + CountTok(t, "{"), LAMBDA braceDepth :
    With(PopWhile(st.stack, braceDepth, TRUE), LAMBDA stack :
    With(SomeLoop(st.idx, lang, t, 1), LAMBDA isLoop :
        IF t = << >> THEN st
        ELSE IF isLoop.ok
        THEN LoopLine(st, t, lang, draft,
                      Append(stack, [level |-> braceDepth + 1, bound |-> BoundOf(t, lang)]),
                      braceDepth, isLoop.idx)
        ELSE [st EXCEPT !.stack = stack, !.braceDepth = braceDepth,
                        !.idx = isLoop.idx]))))

\* One iteration of `for (const line of lines)`, brace branch.  The draft
\* (web/src/engine/analyse.ts 163-185) and the current analyse.ts (131-149)
\* differ in two places: only the draft keeps chain (maxProductFactors, by
\* recordProduct), and only the current version lets a logarithmic bound set
\* hasLogLoop.
BraceLine(st, line, lang, draft) ==
    With(Trim(line), LAMBDA t :
    With(Max(0, st.braceDepth - CountTok(t, "}")), LAMBDA braceDepth :
    With(PopWhile(st.stack, braceDepth, TRUE), LAMBDA stack :
    With(SomeLoop(st.idx, lang, t, 1), LAMBDA isLoop :
        IF t = << >> THEN st
        ELSE IF isLoop.ok
        THEN LoopLine(st, t, lang, draft,
                      Append(stack, [level |-> braceDepth + 1, bound |-> BoundOf(t, lang)]),
                      braceDepth + CountTok(t, "{"), isLoop.idx)
        ELSE [st EXCEPT !.stack = stack, !.braceDepth = braceDepth + CountTok(t, "{"),
                        !.idx = isLoop.idx]))))

\* A faulty indentation branch: only the scopes of a greater level are popped.
IndentLinePopsDeeperOnly(st, line, lang, draft) ==
    With(Trim(line), LAMBDA t :
    With(PopWhile(st.stack, Indent(line), TRUE), LAMBDA stack :
    With(SomeLoop(st.idx, lang, t, 1), LAMBDA isLoop :
        IF t = << >> THEN st
        ELSE IF isLoop.ok
        THEN LoopLine(st, t, lang, draft,
                      Append(stack, [level |-> Indent(line), bound |-> BoundOf(t, lang)]),
                      0, isLoop.idx)
        ELSE [st EXCEPT !.stack = stack, !.idx = isLoop.idx])))

\* One iteration of `for (const line of lines)`, indentation branch.
IndentLine(st, line, lang, draft) ==
    With(Trim(line), LAMBDA t :
    With(PopWhile(st.stack, Indent(line), FALSE), LAMBDA stack :
    With(SomeLoop(st.idx, lang, t, 1), LAMBDA isLoop :
        IF t = << >> THEN st
        ELSE IF isLoop.ok
        THEN LoopLine(st, t, lang, draft,
                      Append(stack, [level |-> Indent(line), bound |-> BoundOf(t, lang)]),
                      0, isLoop.idx)
        ELSE [st EXCEPT !.stack = stack, !.idx = isLoop.idx])))

RECURSIVE Track(_, _, _, _, _)
Track(st, lines, k, lang, draft) ==
    IF k > Len(lines) THEN st
    ELSE CHOOSE end \in {Track(next, lines, k + 1, lang, draft) :
                            next \in {IF usesBraces(lang)
                                      THEN BraceLine(st, lines[k], lang, draft)
                                      ELSE IndentLine(st, lines[k], lang, draft)}} : TRUE

\* The rationale strings of analyse.ts
WhySort == "Detected sorting operation; normalized to canonical O(n log n)."
WhyRecursion(bigO) == "Detected recursion pattern mapped to canonical " \o bigO \o "."
WhyLoops(loopCount, maxDepth, loopBigO) ==
    "Detected " \o ToStr(loopCount) \o " loop(s) with depth " \o ToStr(maxDepth)
        \o ", mapped to canonical " \o loopBigO \o "."
WhyNoLoops == "No loop structures detected."
WhySortLoop ==
    "Sort + loop pattern retained as canonical O(n log n). (Worst-case composition may be higher.)"

\* tags.push(tag); timeCandidates.push({ bigO, confidence }); why.push(msg)
\* when the condition holds
PushTagged(s, cond, tag, bigO, confidence, msg) ==
    IF cond
    THEN [tags |-> Append(s.tags, tag),
          pool |-> Append(s.pool, [bigO |-> bigO, confidence |-> confidence]),
          why |-> Append(s.why, msg)]
    ELSE s

\* timeCandidates.push({ bigO, confidence }); why.push(msg)
Push(s, bigO, confidence, msg) ==
    [s EXCEPT !.pool = Append(@, [bigO |-> bigO, confidence |-> confidence]),
              !.why = Append(@, msg)]

\* A faulty pool: the loop candidate is pushed without the test of loopCount,
\* so a text without loops contributes its loop class with the confidence of
\* a detected loop.
CandidatesWithoutLoopTest(loopCount, maxDepth, hasSort, recursionBigO, loopBigO) ==
    With(PushTagged([tags |-> << >>, pool |-> << >>, why |-> << >>],
                    hasSort, "sort", "O(n log n)", 65, WhySort), LAMBDA s1 :
    With(PushTagged(s1, recursionBigO # "", "recursion", recursionBigO,
                    IF recursionBigO = "O(n)" THEN 52 ELSE 76,
                    WhyRecursion(recursionBigO)), LAMBDA s2 :
    With(Push(s2, loopBigO, 62, WhyLoops(loopCount, maxDepth, loopBigO)), LAMBDA s3 :
        IF hasSort /\ loopCount > 0
        THEN Push(s3, "O(n log n)", 70, WhySortLoop)
        ELSE s3)))

\* Lines 171-201 of analyse.ts: the tags, the candidate pool and the rationale
\* list, filled in the order of the statements.
Candidates(loopCount, maxDepth, hasSort, recursionBigO, loopBigO) ==
    With(PushTagged([tags |-> << >>, pool |-> << >>, why |-> << >>],
                    hasSort, "sort", "O(n log n)", 65, WhySort), LAMBDA s1 :
    With(PushTagged(s1, recursionBigO # "", "recursion", recursionBigO,
                    IF recursionBigO = "O(n)" THEN 52 ELSE 76,
                    WhyRecursion(recursionBigO)), LAMBDA s2 :
    With(IF loopCount > 0
         THEN Push(s2, loopBigO, 62, WhyLoops(loopCount, maxDepth, loopBigO))
         ELSE Push(s2, "O(1)", 30, WhyNoLoops), LAMBDA s3 :
        IF hasSort /\ loopCount > 0
        THEN Push(s3, "O(n log n)", 70, WhySortLoop)
        ELSE s3)))

\* analyse(code, chosenLang) for a language of PROFILES, run with the loop
\* regexes in state idx: the AnalysisResult, the candidate pool it was picked
\* from, and the state the regexes are left in.  Confidences are in hundredths.
analyseIn(idx, code, lang) ==
    With(removeComments(lang, code), LAMBDA text :
    With(CountLoops(idx, lang, text, 1), LAMBDA cnt :
    With(Track(TrackerInit(cnt.idx), SplitLines(text), 1, lang, FALSE), LAMBDA st :
    With(sortRegexes(lang, text), LAMBDA hasSort :
    With(detectRecursionComplexity(text), LAMBDA recursionBigO :
    With(canonicalLoopComplexity(st.maxDepth,
                                 st.hasLogLoop \/ detectGlobalLogProgression(text, lang),
                                 cnt.n), LAMBDA loopBigO :
    With(Candidates(cnt.n, st.maxDepth, hasSort, recursionBigO, loopBigO), LAMBDA s :
        [result |-> [loops |-> [count |-> cnt.n, maxDepth |-> st.maxDepth],
                     tags |-> s.tags,
                     time |-> pickDominant(s.pool),
                     why |-> s.why],
         pool |-> s.pool,
         idx |-> st.idx])))))))

\* chosenLang === "auto" ? "python" : chosenLang
resolveLang(chosenLang) == IF chosenLang = "auto" THEN "python" ELSE chosenLang

\* analyse(code, chosenLang) for any tag: PROFILES[lang] is undefined for a tag
\* that is not a key of PROFILES, and profile.removeComments then throws a
\* TypeError before anything else is done.
analyse(i, text, chosenLang) ==
    IF resolveLang(chosenLang) \in Langs
    THEN [threw |-> FALSE] @@ analyseIn(i, text, resolveLang(chosenLang))
    ELSE [threw |-> TRUE, idx |-> i]

(***************************************************************************)
(* Inputs: the source texts the model is run on are made of whole lines    *)
(* taken from a small alphabet per language.                               *)
(***************************************************************************)
PythonLines ==
    \* for i in range(n):
    { <<"for", " ", "i", " ", "in", " ", "range", "(", "n", ")", ":">>,
    \*  for j in range(log(n)):
      <<" ", "for", " ", "j", " ", "in", " ", "range", "(", "log", "(", "n", ")", ")", ":">>,
    \* while i < n: i *= 2
      <<"while", " ", "i", " ", "<", " ", "n", ":", " ", "i", " ", "*", "=", " ", "2">>,
    \* x = sorted(arr) # for
      <<"x", " ", "=", " ", "sorted", "(", "arr", ")", " ", "#", " ", "for">>,
    \* def f(n): return f(n - 1)
      <<"def", " ", "f", "(", "n", ")", ":", " ", "return", " ", "f", "(", "n", " ", "-", " ", "1", ")">>,
    \* def g(n): return g(n - 1) + g(n - 2)
      <<"def", " ", "g", "(", "n", ")", ":", " ", "return", " ", "g", "(", "n", " ", "-", " ", "1", ")", " ", "+", " ", "g", "(", "n", " ", "-", " ", "2", ")">>,
    \* def f(n): return n * f(n - 1)
      <<"def", " ", "f", "(", "n", ")", ":", " ", "return", " ", "n", " ", "*", " ", "f", "(", "n", " ", "-", " ", "1", ")">>,
    \*  i *= 2
      <<" ", "i", " ", "*", "=", " ", "2">> }

CLines ==
    \* for (i = 0; i < n; i++) {
    { <<"for", " ", "(", "i", " ", "=", " ", "0", ";", " ", "i", " ", "<", " ", "n", ";", " ", "i", "+", "+", ")", " ", "{">>,
    \* }
      <<"}">>,
    \* for (i = 1; i < n; i *= 2) {
      <<"for", " ", "(", "i", " ", "=", " ", "1", ";", " ", "i", " ", "<", " ", "n", ";", " ", "i", " ", "*", "=", " ", "2", ")", " ", "{">>,
    \* qsort(arr); // for
      <<"qsort", "(", "arr", ")", ";", " ", "/", "/", " ", "for">>,
    \* int f(int n) { return f(n - 1); }
      <<"int", " ", "f", "(", "int", " ", "n", ")", " ", "{", " ", "return", " ", "f", "(", "n", " ", "-", " ", "1", ")", ";", " ", "}">>,
    \* int g(int n) { return g(n - 1) + g(n - 2); }
      <<"int", " ", "g", "(", "int", " ", "n", ")", " ", "{", " ", "return", " ", "g", "(", "n", " ", "-", " ", "1", ")", " ", "+", " ", "g", "(", "n", " ", "-", " ", "2", ")", ";", " ", "}">>,
    \* int f(int n) { return n * f(n - 1); }
      <<"int", " ", "f", "(", "int", " ", "n", ")", " ", "{", " ", "return", " ", "n", " ", "*", " ", "f", "(", "n", " ", "-", " ", "1", ")", ";", " ", "}">>,
    \* do { i /= 2; } while (i < n);
      <<"do", " ", "{", " ", "i", " ", "/", "=", " ", "2", ";", " ", "}", " ", "while", " ", "(", "i", " ", "<", " ", "n", ")", ";">> }

JavaLines ==
    \* for (int i = 0; i < n; i++) {
    { <<"for", " ", "(", "int", " ", "i", " ", "=", " ", "0", ";", " ", "i", " ", "<", " ", "n", ";", " ", "i", "+", "+", ")", " ", "{">>,
    \* }
      <<"}">>,
    \* Arrays.sort(arr);
      <<"Arrays", ".", "sort", "(", "arr", ")", ";">>,
    \* static int f(int n) { return f(n - 1) + f(n - 2); }
      <<"static", " ", "int", " ", "f", "(", "int", " ", "n", ")", " ", "{", " ", "return", " ", "f", "(", "n", " ", "-", " ", "1", ")", " ", "+", " ", "f", "(", "n", " ", "-", " ", "2", ")", ";", " ", "}">>,
    \* while (i < n) { i *= 2; }
      <<"while", " ", "(", "i", " ", "<", " ", "n", ")", " ", "{", " ", "i", " ", "*", "=", " ", "2", ";", " ", "}">> }

LinesOf(lang) ==
    CASE lang = "python" -> PythonLines
      [] lang = "java" -> JavaLines
      [] lang = "c" -> CLines

\* The texts of at most max lines of the language (the empty text included).
TextsOf(lang, max) ==
    {JoinLines(ls) : ls \in UNION {[1..k -> LinesOf(lang)] : k \in 0..max}}

(***************************************************************************)
(* web/src/engine/analyse.ts, lines 1-273: the draft of analyse that the   *)
(* web application ships.  Its loop tracker is the one above (draft =      *)
(* TRUE); it differs in how the loop class is built and ranked.            *)
(* (Its extractLoopBound has one more Python pattern, for range(<digits>,  *)
(* name); whenever that pattern matches, the pattern before it has matched *)
(* already, so the function is the same.)                                  *)
(***************************************************************************)
\* BIG_O_RANK[bigO], which is undefined for a label that is not a key
web_rankBigO(bigO) ==
    IF bigO \in DOMAIN BIG_O_RANK
    THEN [defined |-> TRUE, value |-> BIG_O_RANK[bigO]]
    ELSE [defined |-> FALSE, value |-> 0]

\* a > b on numbers or undefined: undefined converts to NaN, and every
\* comparison with NaN is false
JsGreater(a, b) == a.defined /\ b.defined /\ a.value > b.value

RECURSIVE web_Reduce(_, _, _)
web_Reduce(list, i, best) ==
    IF i > Len(list) THEN best
    ELSE web_Reduce(list, i + 1,
                    IF JsGreater(web_rankBigO(list[i].bigO), web_rankBigO(best.bigO))
                    THEN list[i] ELSE best)

web_pickDominant(candidates) ==
    LET known == SelectSeq(candidates, LAMBDA c : c.bigO # "O(?)")
        list == IF Len(known) > 0 THEN known ELSE candidates
    IN  web_Reduce(list, 1,
                   IF Len(list) > 0 THEN list[1] ELSE [bigO |-> "O(?)", confidence |-> 25])

\* The text of a token sequence
RECURSIVE Concat(_)
Concat(s) == IF s = << >> THEN "" ELSE Head(s) \o Concat(Tail(s))

\* factors.join(sep) for a sequence of strings
RECURSIVE JoinStr(_, _)
JoinStr(fs, sep) ==
    IF fs = << >> THEN ""
    ELSE IF Len(fs) = 1 THEN fs[1]
    ELSE fs[1] \o sep \o JoinStr(Tail(fs), sep)

bigOFromFactors(factors) ==
    IF Len(factors) = 0 THEN "O(1)"
    ELSE IF Len(factors) = 1 THEN "O(" \o factors[1] \o ")"
    ELSE "O(" \o JoinStr(factors, "*") \o ")"

normalizeFactors(rawFactors) ==
    LET count(kind) ==
            Cardinality({k \in 1..Len(rawFactors) : classifyBound(rawFactors[k]) = kind})
        nCount == count("n")
    IN  (IF count("log n") > 0 THEN <<"log n">> ELSE << >>)
        \o (IF nCount = 1 THEN <<"n">>
            ELSE IF nCount > 1 THEN << "n^" \o ToStr(nCount) >>
            ELSE << >>)

web_WhySortTag(lang) == "Detected sorting in " \o lang \o " (often O(n log n))"
web_WhyBound(bound, bigO) ==
    "Detected loop bounded by " \o Concat(bound) \o ", normalized to " \o bigO \o "."
web_WhyNested(chain, bigO) ==
    "Detected nested loops with bounds "
        \o JoinStr([k \in 1..Len(chain) |-> Concat(chain[k])], " * ")
        \o ", normalized to " \o bigO \o "."
web_WhyDepth == "Nested loop depth >= 2 suggests quadratic behaviour."
web_WhyLog ==
    "Detected multiplicative/divisive loop progression, suggesting logarithmic behaviour."
web_WhySort == "Detected sorting (often O(n log n))."
web_WhyLoops == "Detected loop(s); linear is a common dominant term."
web_WhyNone == "No strong patterns detected (simple heuristics)."

\* A faulty push: the candidate is pushed without its rationale.
PushIfWithoutWhy(s, cond, bigO, confidence, msg) ==
    IF cond
    THEN [s EXCEPT !.pool = Append(@, [bigO |-> bigO, confidence |-> confidence])]
    ELSE s

\* Append a candidate and its rationale when the condition holds.
PushIf(s, cond, bigO, confidence, msg) ==
    IF cond
    THEN [s EXCEPT !.pool = Append(@, [bigO |-> bigO, confidence |-> confidence]),
                   !.why = Append(@, msg)]
    ELSE s

web_Candidates(lang, loopCount, st, hasSort, normalizedFactors, bigO) ==
    With(PushIf(IF hasSort
                THEN [tags |-> <<"sort">>, pool |-> << >>, why |-> << web_WhySortTag(lang) >>]
                ELSE [tags |-> << >>, pool |-> << >>, why |-> << >>],
                Len(normalizedFactors) = 1, bigO, 60,
                web_WhyBound(IF st.chain = << >> THEN << >> ELSE st.chain[1], bigO)),
         LAMBDA s1 :
    With(PushIf(s1, Len(normalizedFactors) >= 2, bigO, 65, web_WhyNested(st.chain, bigO)),
         LAMBDA s2 :
    With(PushIf(s2, st.maxDepth >= 2 /\ Len(normalizedFactors) < 2, "O(n^2)", 45,
                web_WhyDepth), LAMBDA s3 :
    With(PushIf(s3, st.hasLogLoop, "O(log n)", 58, web_WhyLog), LAMBDA s4 :
    With(PushIf(s4, hasSort, "O(n log n)", 55, web_WhySort), LAMBDA s5 :
    With(PushIf(s5, loopCount >= 1, "O(n)", 45, web_WhyLoops), LAMBDA s6 :
        PushIf(s6, Len(s6.pool) = 0, "O(1)", 25, web_WhyNone)))))))

web_analyseIn(idx, code, lang) ==
    With(removeComments(lang, code), LAMBDA text :
    With(CountLoops(idx, lang, text, 1), LAMBDA cnt :
    With(Track(TrackerInit(cnt.idx), SplitLines(text), 1, lang, TRUE), LAMBDA st :
    With(normalizeFactors(st.chain), LAMBDA normalizedFactors :
    With(web_Candidates(lang, cnt.n, st, sortRegexes(lang, text), normalizedFactors,
                        bigOFromFactors(normalizedFactors)), LAMBDA s :
        [result |-> [loops |-> [count |-> cnt.n, maxDepth |-> st.maxDepth],
                     tags |-> s.tags,
                     time |-> web_pickDominant(s.pool),
                     why |-> s.why],
         pool |-> s.pool,
         idx |-> st.idx])))))

(***************************************************************************)
(* ir.ts: the CST adapter layer.  A TreeSitterNode is a record             *)
(* [type, text, kids]: kids[i] is child(i), Len(kids) is childCount.       *)
(***************************************************************************)
\* ADAPTERS[lang].loopNodes[type], "" when the type is not a key
loopNodes(lang, type) ==
    CASE type = "for_statement" -> "for"
      [] type = "while_statement" -> "while"
      [] type = "enhanced_for_statement" /\ lang = "java" -> "for"
      [] type = "do_statement" /\ lang \in {"java", "c"} -> "do"
      [] OTHER -> ""

\* ADAPTERS[lang].functionNodeTypes
functionNodeTypes(lang) ==
    IF lang = "java" THEN {"method_declaration"} ELSE {"function_definition"}

\* /\bw\s*\(/ without the i flag
CallOf(s, w) == \E k \in 1..Len(s) : s[k] = w /\ At(s, Skip(s, k + 1)) = "("

\* /\.sort\s*\(/
DotSortCall(s) ==
    \E k \in 1..Len(s) :
        s[k] = "." /\ At(s, k + 1) = "sort" /\ At(s, Skip(s, k + 2)) = "("

\* /\bw\.sort\s*\(/
DottedSortCall(s, w) ==
    \E k \in 1..Len(s) :
        /\ s[k] = w
        /\ At(s, k + 1) = "."
        /\ At(s, k + 2) = "sort"
        /\ At(s, Skip(s, k + 3)) = "("

\* ADAPTERS[lang].sortCallRegexes: does any of them match?
sortCallRegexes(lang, s) ==
    CASE lang = "python" -> CallOf(s, "sorted") \/ DotSortCall(s)
      [] lang = "java" ->
            DottedSortCall(s, "Arrays") \/ DottedSortCall(s, "Collections") \/ DotSortCall(s)
      [] lang = "c" -> CallOf(s, "qsort")

\* /\bw\./
WordDot(s, w) == \E k \in 1..Len(s) : s[k] = w /\ At(s, k + 1) = "."

\* ADAPTERS[lang].libraryOpRegexes: does any of them match?
libraryOpRegexes(lang, s) ==
    CASE lang = "python" ->
            CallOf(s, "set") \/ CallOf(s, "dict") \/ WordDot(s, "heapq") \/ WordDot(s, "bisect")
      [] lang = "java" ->
            \E k \in 1..Len(s) : s[k] \in {"HashMap", "HashSet", "PriorityQueue", "Deque"}
      [] lang = "c" ->
            CallOf(s, "bsearch") \/ CallOf(s, "malloc") \/ CallOf(s, "calloc")
                \/ CallOf(s, "realloc")

boundHintFromText(text) ==
    IF \E i \in 1..Len(text) : CLogOpAt(text, i) \/ OpThenDigits(text, i, <<"/", "/", "=">>)
    THEN "log n"
    ELSE IF \E k \in 1..Len(text) : LowerTok(text[k]) \in {"log", "ln"} THEN "log n"
    ELSE IF (\E k \in 1..Len(text) : IsNum(text[k]))
            /\ ~(\E k \in 1..Len(text) : IsIdent(text[k]) \/ text[k] = "_")
    THEN "constant"
    ELSE "n"

\* The first index k at which P holds, 0 when there is none.
FirstIdx(s, P(_)) ==
    IF \E k \in 1..Len(s) : P(k)
    THEN CHOOSE k \in 1..Len(s) : P(k) /\ \A m \in 1..(k - 1) : ~P(m)
    ELSE 0

\* /\bdef\s+([A-Za-z_]\w*)\s*\(/
PyDefName(s) ==
    LET ok(k) ==
            LET j == Skip(s, k + 1)
            IN  s[k] = "def" /\ j > k + 1 /\ IsIdent(At(s, j)) /\ At(s, Skip(s, j + 1)) = "("
        k == FirstIdx(s, ok)
    IN  IF k = 0 THEN "" ELSE s[Skip(s, k + 1)]

\* /[A-Za-z_]\w*\s+([A-Za-z_]\w*)\s*\(/
CDefName(s) ==
    LET ok(k) ==
            LET j == Skip(s, k + 1)
            IN  IsIdent(s[k]) /\ j > k + 1 /\ IsIdent(At(s, j))
                    /\ At(s, Skip(s, j + 1)) = "("
        k == FirstIdx(s, ok)
    IN  IF k = 0 THEN "" ELSE s[Skip(s, k + 1)]

Modifiers ==
    {"public", "private", "protected", "static", "final", "synchronized", "native",
     "abstract"}

\* [\w<>\[\]]
IsTypeTok(t) == IsWord(t) \/ t \in {"<", ">", "[", "]"}

\* /(?:public|...|abstract|\s)+\s*[\w<>\[\]]+\s+([A-Za-z_]\w*)\s*\(/ tried at
\* token a: the run of modifiers and blanks from a, then a type that starts at
\* b (behind the run, or at a modifier the run gives back), blanks, the name
\* and "(".  The run is greedy, so the last b that works is taken.  0 when
\* there is no match at a.
JavaNameIdxAt(s, a) ==
    LET inRun(k) == At(s, k) \in Modifiers \/ IsSpace(At(s, k))
        runEnd == CHOOSE e \in a..(Len(s) + 1) :
                      (\A m \in a..(e - 1) : inRun(m)) /\ ~inRun(e)
        typeEnd(b) == CHOOSE e \in b..(Len(s) + 1) :
                          (\A m \in b..(e - 1) : IsTypeTok(s[m])) /\ ~IsTypeTok(At(s, e))
        nameIdx(b) == Skip(s, typeEnd(b))
        ok(b) == /\ IsTypeTok(At(s, b))
                 /\ IsSpace(At(s, typeEnd(b)))
                 /\ IsIdent(At(s, nameIdx(b)))
                 /\ At(s, Skip(s, nameIdx(b) + 1)) = "("
        bs == {b \in (a + 1)..runEnd : ok(b)}
    IN  IF inRun(a) /\ bs # {}
        THEN nameIdx(CHOOSE b \in bs : \A c \in bs : c <= b)
        ELSE 0

JavaDefName(s) ==
    LET ok(a) == JavaNameIdxAt(s, a) # 0
        a == FirstIdx(s, ok)
    IN  IF a = 0 THEN "" ELSE s[JavaNameIdxAt(s, a)]

extractFunctionName(text, lang) ==
    CASE lang = "python" -> PyDefName(text)
      [] lang = "java" -> JavaDefName(text)
      [] lang = "c" -> CDefName(text)

\* /\b\w+\s*\*\s*\w*\s*\(?\s*\b\w+\s*-\s*1\s*\)?/m
TimesMinusOne(s) ==
    \E k \in 1..Len(s) :
        LET j == Skip(s, k + 1)
            q == Skip(s, j + 1)
            tail(w) ==
                \* \s*-\s*1 behind the word at w
                LET m == Skip(s, w + 1)
                IN  IsWord(At(s, w)) /\ At(s, m) = "-"
                        /\ At(s, Skip(s, m + 1)) \in {"1", "10"}
            rest(r) ==
                \* \(?\s*\b\w+... from index r, behind \w*\s*
                tail(r) \/ (At(s, r) = "(" /\ tail(Skip(s, r + 1)))
        IN  /\ IsWord(s[k])
            /\ At(s, j) = "*"
            /\ (rest(q) \/ (IsWord(At(s, q)) /\ rest(Skip(s, q + 1))))

\* The result of getRecursionSignal; functionName "" stands for null.
NoSignal == [functionName |-> "", direct |-> FALSE, selfCallCount |-> 0, complexityHint |-> ""]

getRecursionSignal(functionText, functionName) ==
    LET calls == Cardinality(CallSites(functionText, functionName))
        branchCalls == Max(0, calls - 1)
        factorialLike == TimesMinusOne(functionText) \/ ReturnTimesCall(functionText)
    IN  IF functionName = "" THEN NoSignal
        ELSE IF calls <= 1 THEN NoSignal
        ELSE [functionName |-> functionName,
              direct |-> TRUE,
              selfCallCount |-> branchCalls,
              complexityHint |-> IF factorialLike THEN "factorial"
                                 ELSE IF branchCalls >= 2 THEN "exponential"
                                 ELSE "linear"]

\* The characters of a text
RECURSIVE Chars(_)
Chars(s) ==
    IF s = << >> THEN << >>
    ELSE IF Len(s) = 1 THEN TokChars(s[1])
    ELSE Chars(SubSeq(s, 1, Len(s) \div 2)) \o Chars(SubSeq(s, Len(s) \div 2 + 1, Len(s)))

SnippetLen == 120

\* node.text.trim().slice(0, 120), as a sequence of characters
Snippet(text) ==
    LET cs == Chars(Trim(text))
    IN  IF Len(cs) > SnippetLen THEN SubSeq(cs, 1, SnippetLen) ELSE cs

\* Set.prototype.add on a set kept in insertion order
SetAdd(seq, x) == IF \E k \in 1..Len(seq) : seq[k] = x THEN seq ELSE Append(seq, x)

\* A faulty visit: a loop observation carries the depth its node was entered
\* with, which does not count the node itself.
VisitNodeDepthAbove(ir, node, depth, lang) ==
    LET loopKind == loopNodes(lang, node.type)
        functionName == extractFunctionName(node.text, lang)
        signal == getRecursionSignal(node.text, functionName)
    IN  [loops |-> IF loopKind # ""
                   THEN Append(ir.loops, [kind |-> loopKind, depth |-> depth,
                                          boundHint |-> boundHintFromText(node.text)])
                   ELSE ir.loops,
         sortingCalls |-> IF sortCallRegexes(lang, node.text)
                          THEN SetAdd(ir.sortingCalls, Snippet(node.text))
                          ELSE ir.sortingCalls,
         libraryOps |-> IF libraryOpRegexes(lang, node.text)
                        THEN SetAdd(ir.libraryOps, Snippet(node.text))
                        ELSE ir.libraryOps,
         recursion |-> IF node.type \in functionNodeTypes(lang) /\ signal # NoSignal
                       THEN Append(ir.recursion, signal)
                       ELSE ir.recursion,
         visited |-> ir.visited + 1]

\* The body of walk for one node, before it descends (ir.ts 111-130)
VisitNode(ir, node, depth, lang) ==
    LET loopKind == loopNodes(lang, node.type)
        nextDepth == IF loopKind # "" THEN depth + 1 ELSE depth
        functionName == extractFunctionName(node.text, lang)
        signal == getRecursionSignal(node.text, functionName)
    IN  [loops |-> IF loopKind # ""
                   THEN Append(ir.loops, [kind |-> loopKind, depth |-> nextDepth,
                                          boundHint |-> boundHintFromText(node.text)])
                   ELSE ir.loops,
         sortingCalls |-> IF sortCallRegexes(lang, node.text)
                          THEN SetAdd(ir.sortingCalls, Snippet(node.text))
                          ELSE ir.sortingCalls,
         libraryOps |-> IF libraryOpRegexes(lang, node.text)
                        THEN SetAdd(ir.libraryOps, Snippet(node.text))
                        ELSE ir.libraryOps,
         recursion |-> IF node.type \in functionNodeTypes(lang) /\ signal # NoSignal
                       THEN Append(ir.recursion, signal)
                       ELSE ir.recursion,
         visited |-> ir.visited + 1]

\* walk(node, depth) and its loop over the children.  visited counts the
\* calls of walk; it is not part of the NormalizedIr.
RECURSIVE walk(_, _, _, _)
RECURSIVE WalkKids(_, _, _, _, _)
walk(ir, node, depth, lang) ==
    WalkKids(VisitNode(ir, node, depth, lang), node.kids, 1,
             IF loopNodes(lang, node.type) # "" THEN depth + 1 ELSE depth, lang)
WalkKids(ir, kids, i, nextDepth, lang) ==
    IF i > Len(kids) THEN ir
    ELSE WalkKids(walk(ir, kids[i], nextDepth, lang), kids, i + 1, nextDepth, lang)

buildNormalizedIr(rootNode, lang) ==
    walk([loops |-> << >>, sortingCalls |-> << >>, libraryOps |-> << >>,
          recursion |-> << >>, visited |-> 0],
         rootNode, 0, lang)

(***************************************************************************)
(* treeSitter.ts: the CST path (the names it shares with analyse.ts carry  *)
(* the prefix ts_).                                                        *)
(***************************************************************************)
ts_BIG_O_RANK == BIG_O_RANK

ts_rankBigO(bigO) == IF bigO \in DOMAIN ts_BIG_O_RANK THEN ts_BIG_O_RANK[bigO] ELSE -1

\* candidates.reduce((best, cur) => ..., candidates[0])
RECURSIVE ts_Reduce(_, _, _)
ts_Reduce(list, i, best) ==
    IF i > Len(list) THEN best
    ELSE ts_Reduce(list, i + 1,
                   IF ts_rankBigO(list[i].bigO) > ts_rankBigO(best.bigO) THEN list[i]
                   ELSE best)

ts_pickDominant(candidates) == ts_Reduce(candidates, 1, candidates[1])

ts_canonicalLoopComplexity(depth, hasLogLoop) ==
    IF depth <= 0 THEN "O(1)"
    ELSE IF depth >= 3 THEN "O(n^3)"
    ELSE IF depth = 2 THEN "O(n^2)"
    ELSE IF hasLogLoop THEN "O(log n)"
    ELSE "O(n)"

\* "" stands for null
recursionComplexity(recursion) ==
    IF \E k \in 1..Len(recursion) : recursion[k].complexityHint = "factorial" THEN "O(n!)"
    ELSE IF \E k \in 1..Len(recursion) : recursion[k].complexityHint = "exponential"
    THEN "O(2^n)"
    ELSE IF Len(recursion) > 0 THEN "O(n)"
    ELSE ""

\* ir.loops.reduce((best, loop) => Math.max(best, loop.depth), 0)
RECURSIVE MaxLoopDepth(_)
MaxLoopDepth(loops) ==
    IF loops = << >> THEN 0 ELSE Max(MaxLoopDepth(Tail(loops)), Head(loops).depth)

ts_WhyIntro ==
    "Used Tree-sitter CST parsing with language adapters and normalized IR extraction."
ts_WhyNone == "No loops, recursion, or sort operations detected in IR."
ts_WhyLoops(n, maxDepth, loopBigO) ==
    "Detected " \o ToStr(n) \o " loop(s) with max depth " \o ToStr(maxDepth)
        \o ", mapped to " \o loopBigO \o "."
ts_WhySort(n) == "Detected " \o ToStr(n) \o " sorting call(s), suggesting O(n log n)."
ts_WhySortLoop ==
    "Sort + loop combination preserved as canonical O(n log n). (Worst-case composition may exceed this heuristic.)"
ts_WhyRecursion(bigO) == "Detected recursion pattern mapped to canonical " \o bigO \o "."
ts_WhyLibrary(ops) ==
    "Detected " \o ToStr(Len(ops)) \o " library operation pattern(s): "
        \o JoinStr([k \in 1..(IF Len(ops) > 2 THEN 2 ELSE Len(ops)) |-> Concat(ops[k])], "; ")
        \o "."
ts_WhyWeak == "No strong CST/IR indicators detected."

\* A faulty pool: the sort + loop candidate composes the class of the sort
\* with that of the loops (one more factor n) instead of retaining O(n log n).
ts_CandidatesComposed(ir, maxDepth, hasSort, recursionBigO, loopBigO) ==
    With(PushIf([pool |-> << >>, why |-> <<ts_WhyIntro>>],
                Len(ir.loops) = 0 /\ ~hasSort /\ recursionBigO = "",
                "O(1)", 35, ts_WhyNone), LAMBDA s1 :
    With(PushIf(s1, Len(ir.loops) > 0, loopBigO, 72,
                ts_WhyLoops(Len(ir.loops), maxDepth, loopBigO)), LAMBDA s2 :
    With(PushIf(s2, hasSort, "O(n log n)", 70, ts_WhySort(Len(ir.sortingCalls))),
         LAMBDA s3 :
    With(PushIf(s3, hasSort /\ Len(ir.loops) > 0,
                IF maxDepth >= 2 THEN "O(n^3)" ELSE "O(n^2)", 76, ts_WhySortLoop),
         LAMBDA s4 :
    With(PushIf(s4, recursionBigO # "", recursionBigO,
                IF recursionBigO = "O(n)" THEN 52 ELSE 78,
                ts_WhyRecursion(recursionBigO)), LAMBDA s5 :
    With(IF Len(ir.libraryOps) > 0
         THEN [s5 EXCEPT !.why = Append(@, ts_WhyLibrary(ir.libraryOps))]
         ELSE s5, LAMBDA s6 :
        PushIf(s6, Len(s6.pool) = 0, "O(1)", 25, ts_WhyWeak)))))))

\* Lines 101-155 of analyseWithTreeSitter: the IR of the parsed tree, the
\* candidate pool and the AnalysisResult picked from it.
ts_Candidates(ir, maxDepth, hasSort, recursionBigO, loopBigO) ==
    With(PushIf([pool |-> << >>, why |-> <<ts_WhyIntro>>],
                Len(ir.loops) = 0 /\ ~hasSort /\ recursionBigO = "",
                "O(1)", 35, ts_WhyNone), LAMBDA s1 :
    With(PushIf(s1, Len(ir.loops) > 0, loopBigO, 72,
                ts_WhyLoops(Len(ir.loops), maxDepth, loopBigO)), LAMBDA s2 :
    With(PushIf(s2, hasSort, "O(n log n)", 70, ts_WhySort(Len(ir.sortingCalls))),
         LAMBDA s3 :
    With(PushIf(s3, hasSort /\ Len(ir.loops) > 0, "O(n log n)", 76, ts_WhySortLoop),
         LAMBDA s4 :
    With(PushIf(s4, recursionBigO # "", recursionBigO,
                IF recursionBigO = "O(n)" THEN 52 ELSE 78,
                ts_WhyRecursion(recursionBigO)), LAMBDA s5 :
    With(IF Len(ir.libraryOps) > 0
         THEN [s5 EXCEPT !.why = Append(@, ts_WhyLibrary(ir.libraryOps))]
         ELSE s5, LAMBDA s6 :
        PushIf(s6, Len(s6.pool) = 0, "O(1)", 25, ts_WhyWeak)))))))

\* tags, in the order of the tags.push statements
ts_Tags(ir, hasSort, recursionBigO) ==
    (IF hasSort THEN <<"sort">> ELSE << >>)
        \o (IF recursionBigO # "" THEN <<"recursion">> ELSE << >>)
        \o (IF Len(ir.libraryOps) > 0 THEN <<"library-ops">> ELSE << >>)

ts_analyseTree(rootNode, lang) ==
    With(buildNormalizedIr(rootNode, lang), LAMBDA ir :
    With(MaxLoopDepth(ir.loops), LAMBDA maxDepth :
    With(Len(ir.sortingCalls) > 0, LAMBDA hasSort :
    With(recursionComplexity(ir.recursion), LAMBDA recursionBigO :
    With(ts_Candidates(ir, maxDepth, hasSort, recursionBigO,
                       ts_canonicalLoopComplexity(
                           maxDepth,
                           \E k \in 1..Len(ir.loops) : ir.loops[k].boundHint = "log n")),
         LAMBDA s :
        [result |-> [loops |-> [count |-> Len(ir.loops), maxDepth |-> maxDepth],
                     tags |-> ts_Tags(ir, hasSort, recursionBigO),
                     time |-> ts_pickDominant(s.pool),
                     why |-> s.why],
         pool |-> s.pool,
         ir |-> ir])))))

ts_WhyFallback == "Tree-sitter unavailable; fell back to heuristic analysis."

\* A faulty catch block: the lexical result is returned as it is.
FallbackWithoutDisclosure(fallback) == fallback

\* The catch block: { ...fallback, why: [disclosure, ...fallback.why] }
FallbackResult(fallback) == [fallback EXCEPT !.why = <<ts_WhyFallback>> \o @]

(***************************************************************************)
(* parser.parse(code): the parser is an external library, so the tree is   *)
(* any of the concrete syntax trees below.  Every line of the code starts  *)
(* one statement node, whose type follows from its first word; a node may  *)
(* extend over the lines after its first line, which then hold its         *)
(* children, when the first line opens a block.                            *)
(***************************************************************************)
RootType(lang) ==
    CASE lang = "python" -> "module"
      [] lang = "java" -> "program"
      [] lang = "c" -> "translation_unit"

NodeTypeOf(line, lang) ==
    LET w == At(TrimLeft(line), 1)
    IN  CASE w = "for" -> "for_statement"
          [] w = "while" -> "while_statement"
          [] w = "do" -> "do_statement"
          [] w = "def" /\ lang = "python" -> "function_definition"
          [] w = "int" /\ lang = "c" -> "function_definition"
          [] w = "static" /\ lang = "java" -> "method_declaration"
          [] w = "}" -> "}"
          [] OTHER -> "expression_statement"

\* May the node that starts at line lo hold the lines lo+1..e?
CanNest(lines, lo, e, lang) ==
    IF lang = "python"
    THEN /\ At(lines[lo], Len(lines[lo])) = ":"
         /\ \A m \in (lo + 1)..e : Indent(lines[m]) > Indent(lines[lo])
    ELSE CountTok(lines[lo], "{") > CountTok(lines[lo], "}")

RECURSIVE Forests(_, _, _, _)
Forests(lines, lo, hi, lang) ==
    IF lo > hi THEN {<< >>}
    ELSE UNION {
            {<<[type |-> NodeTypeOf(lines[lo], lang),
                text |-> TrimLeft(JoinLines(SubSeq(lines, lo, e))),
                kids |-> kids]>> \o rest :
                kids \in Forests(lines, lo + 1, e, lang),
                rest \in Forests(lines, e + 1, hi, lang)} :
            e \in {e \in lo..hi : e = lo \/ CanNest(lines, lo, e, lang)}}

Trees(code, lang) ==
    {[type |-> RootType(lang), text |-> code, kids |-> kids] :
        kids \in IF code = << >> THEN {<< >>}
                 ELSE Forests(SplitLines(code), 1, Len(SplitLines(code)), lang)}

(***************************************************************************)
(* State.  code and lang are the arguments of the call under study; the    *)
(* other variables hold what the operations have returned so far.          *)
(***************************************************************************)
VARIABLES
    code,                 \* the source text handed to the operation
    lang,                 \* the language tag handed to the operation
    once, twice,          \* removeComments applied once, and applied again
    pool, picked,         \* a candidate pool and what pickDominant returned
    lex, web, cst,        \* what analyse, the web draft and the CST path returned
    idx,                  \* lastIndex of every loop regex of PROFILES
    last,                 \* the latest analyse call and its result
    scan,                 \* the loop tracker of one analyse call, line by line
    parserModulePromise,  \* state of the import of the parser module
    languageCache,        \* language tag -> state of the cached promise
    loader,               \* language tag -> position of the async loader
    loads,                \* language tag -> number of Parser.Language.load calls
    started,              \* number of analyseWithTreeSitter calls made so far
    calls,                \* the calls in flight: a bag of [chosenLang, pc]
    settled               \* the call that settled last, and with what

vars ==
    <<code, lang, once, twice, pool, picked, lex, web, cst, idx, last, scan,
      parserModulePromise, languageCache, loader, loads, started, calls, settled>>

inputVars == <<code, lang>>
stripVars == <<once, twice>>
pickVars == <<pool, picked>>
lexVars == <<lex, web, cst>>
asyncVars ==
    <<parserModulePromise, languageCache, loader, loads, started, calls, settled>>

\* A variable that holds no value yet.
Unset == [unset |-> TRUE]

\* The tags a caller may pass: those of the type Lang, and one that is not a
\* key of PROFILES.
UnsupportedTag == "ruby"
Tags == {"auto"} \cup Langs \cup {UnsupportedTag}
CacheKeys == Langs \cup {UnsupportedTag}

NoInput == code = << >> /\ lang = "python"
NoStrip == once = Unset /\ twice = Unset
NoPick == pool = << >> /\ picked = Unset
NoLex == lex = Unset /\ web = Unset /\ cst = Unset
NoDet == last = Unset
NoScan == scan = Unset
NoAsync ==
    /\ parserModulePromise = "pending"
    /\ languageCache = [l \in CacheKeys |-> "absent"]
    /\ loader = [l \in CacheKeys |-> "none"]
    /\ loads = [l \in CacheKeys |-> 0]
    /\ started = 0
    /\ calls = EmptyBag
    /\ settled = Unset

(***************************************************************************)
(* Comment stripping, applied and applied again.                           *)
(***************************************************************************)
MaxStripLen == 8

\* The characters the texts for comment stripping are made of.
StripChars(l) == IF l = "python" THEN {DQ3[1], SQ3[1], "#"} ELSE {"/", "*", NL}

StripTexts(l) == UNION {[1..k -> StripChars(l)] : k \in 0..MaxStripLen}

InitStrip ==
    /\ lang \in Langs
    /\ code \in StripTexts(lang)
    /\ NoStrip /\ NoPick /\ NoLex /\ NoDet /\ NoScan /\ NoAsync
    /\ idx = ZeroIndex

StripOnce ==
    /\ once = Unset
    /\ once' = [text |-> removeComments(lang, code)]
    /\ UNCHANGED <<inputVars, scan, twice, pickVars, lexVars, idx, last, asyncVars>>

StripAgain ==
    /\ once # Unset
    /\ twice = Unset
    /\ twice' = [text |-> removeComments(lang, once.text)]
    /\ UNCHANGED <<inputVars, scan, once, pickVars, lexVars, idx, last, asyncVars>>

NextStrip == StripOnce \/ StripAgain

SpecStrip == InitStrip /\ [][NextStrip]_vars

\* C9: comment stripping is idempotent: stripping a stripped text again
\* returns it unchanged, for every profile and every text.
StripIdempotent == twice # Unset => twice.text = once.text

(***************************************************************************)
(* pickDominant on candidate pools of every shape.                         *)
(***************************************************************************)
MaxPool == 3

\* Labels of the rank table, and one that is not in it.
PoolLabels == {"O(?)", "O(1)", "O(n)", "O(n^2)", "O(n^4)"}
PoolConfidences == {30, 62}

Pools ==
    UNION {[1..k -> [bigO : PoolLabels, confidence : PoolConfidences]] : k \in 1..MaxPool}

InitPick ==
    /\ pool \in Pools
    /\ picked = Unset
    /\ NoInput /\ NoStrip /\ NoLex /\ NoDet /\ NoScan /\ NoAsync
    /\ idx = ZeroIndex

\* pickDominant of analyse.ts
PickLexical ==
    /\ picked = Unset
    /\ picked' = [by |-> "analyse", time |-> pickDominant(pool)]
    /\ UNCHANGED <<inputVars, scan, stripVars, pool, lexVars, idx, last, asyncVars>>

\* pickDominant of treeSitter.ts
PickTree ==
    /\ picked = Unset
    /\ picked' = [by |-> "treeSitter", time |-> ts_pickDominant(pool)]
    /\ UNCHANGED <<inputVars, scan, stripVars, pool, lexVars, idx, last, asyncVars>>

NextPick == PickLexical \/ PickTree

SpecPick == InitPick /\ [][NextPick]_vars

\* The candidates pickDominant folds over: analyse.ts drops "O(?)" when a
\* known class is present.
FoldedOver(by, p) ==
    IF by = "analyse" /\ \E k \in 1..Len(p) : p[k].bigO # "O(?)"
    THEN SelectSeq(p, LAMBDA c : c.bigO # "O(?)")
    ELSE p

\* The pool p with the confidences cs in place of its own.
WithConfidences(p, cs) == [k \in 1..Len(p) |-> [bigO |-> p[k].bigO, confidence |-> cs[k]]]

PickOf(by, p) == IF by = "analyse" THEN pickDominant(p) ELSE ts_pickDominant(p)

\* C6: among the candidates of the highest rank pickDominant returns the one
\* contributed first (class and confidence), and the class it returns is the
\* same whatever the confidences in the pool are.
TiesKeepEarliest ==
    picked # Unset =>
        LET list == FoldedOver(picked.by, pool)
            top == {k \in 1..Len(list) :
                       \A m \in 1..Len(list) : rankBigO(list[k].bigO) >= rankBigO(list[m].bigO)}
            first == CHOOSE k \in top : \A m \in top : k <= m
        IN  /\ picked.time = list[first]
            /\ \A cs \in [1..Len(pool) -> PoolConfidences] :
                   PickOf(picked.by, WithConfidences(pool, cs)).bigO = picked.time.bigO

\* A pool in which two candidates share the highest rank and the later one
\* has the greater confidence has been resolved.
TiesKeepEarliestWitness ==
    /\ picked # Unset
    /\ Len(pool) = 3
    /\ pool[1].bigO = "O(1)"
    /\ pool[2] = [bigO |-> "O(n^2)", confidence |-> 30]
    /\ pool[3] = [bigO |-> "O(n^2)", confidence |-> 62]
    /\ picked.time = pool[2]

(***************************************************************************)
(* One source text run through the draft of the web application, or        *)
(* through analyse (analyse.ts) and then through the CST path on a tree of *)
(* the text.                                                               *)
(***************************************************************************)
MaxLines == 2

\* What the lexical path observes in a text (lines 118-187 of analyse).
LexSignals(text0, l) ==
    LET text == removeComments(l, text0)
        st == Track(TrackerInit(ZeroIndex), SplitLines(text), 1, l, FALSE)
        names == FunctionNames(text, 1, << >>)
    IN  [loopCount |-> CountLoops(ZeroIndex, l, text, 1).n,
         maxDepth |-> st.maxDepth,
         hasLogLoop |-> st.hasLogLoop \/ detectGlobalLogProgression(text, l),
         hasSort |-> sortRegexes(l, text),
         recursive |-> {<<names[k], RecursionClassOf(text, names[k])>> :
                           k \in {k \in 1..Len(names) : RecursionClassOf(text, names[k]) # ""}}]

\* What the CST path observes in a tree (lines 102-106 of analyseWithTreeSitter).
CstSignals(ir) ==
    [loopCount |-> Len(ir.loops),
     maxDepth |-> MaxLoopDepth(ir.loops),
     hasLogLoop |-> \E k \in 1..Len(ir.loops) : ir.loops[k].boundHint = "log n",
     hasSort |-> Len(ir.sortingCalls) > 0,
     recursive |-> {<<ir.recursion[k].functionName,
                      recursionComplexity(<<ir.recursion[k]>>)>> : k \in 1..Len(ir.recursion)}]

InitLex ==
    /\ lang \in Langs
    /\ code \in TextsOf(lang, MaxLines)
    /\ NoStrip /\ NoPick /\ NoLex /\ NoDet /\ NoScan /\ NoAsync
    /\ idx = ZeroIndex

\* analyse(code, lang)
RunAnalyse ==
    /\ NoLex
    /\ LET r == analyseIn(idx, code, lang)
       IN  /\ lex' = [result |-> r.result, pool |-> r.pool,
                      signals |-> LexSignals(code, lang)]
           /\ idx' = r.idx
    /\ UNCHANGED <<inputVars, scan, stripVars, pickVars, web, cst, last, asyncVars>>

\* analyse(code, lang) of web/src/engine/analyse.ts, which has loop regexes
\* of its own (web/src/engine/profiles.ts)
RunDraft ==
    /\ NoLex
    /\ LET r == web_analyseIn(ZeroIndex, code, lang)
       IN  web' = [result |-> r.result, pool |-> r.pool]
    /\ UNCHANGED <<inputVars, scan, stripVars, pickVars, lex, cst, idx, last, asyncVars>>

\* Lines 101-155 of analyseWithTreeSitter on a tree of the text that analyse
\* has been run on
RunTree ==
    /\ lex # Unset
    /\ cst = Unset
    /\ \E t \in Trees(code, lang) :
           LET r == ts_analyseTree(t, lang)
           IN  cst' = [tree |-> t, result |-> r.result, pool |-> r.pool, ir |-> r.ir,
                       signals |-> CstSignals(r.ir)]
    /\ UNCHANGED <<inputVars, scan, stripVars, pickVars, lex, web, idx, last, asyncVars>>

NextLex == RunAnalyse \/ RunDraft \/ RunTree

SpecLex == InitLex /\ [][NextLex]_vars

\* a >= b on numbers or undefined
JsAtLeast(a, b) == a.defined /\ b.defined /\ a.value >= b.value

\* C3: dominance monotonicity: the rank of the candidate pickDominant
\* returns is at least the rank of every candidate of the pool, in analyse,
\* in the web draft and in the CST path.
DominanceMonotone ==
    /\ lex # Unset =>
           \A k \in 1..Len(lex.pool) :
               rankBigO(lex.result.time.bigO) >= rankBigO(lex.pool[k].bigO)
    /\ cst # Unset =>
           \A k \in 1..Len(cst.pool) :
               ts_rankBigO(cst.result.time.bigO) >= ts_rankBigO(cst.pool[k].bigO)
    /\ web # Unset =>
           \A k \in 1..Len(web.pool) :
               JsAtLeast(web_rankBigO(web.result.time.bigO), web_rankBigO(web.pool[k].bigO))

CanonicalLabels ==
    {"O(1)", "O(log n)", "O(n)", "O(n log n)", "O(n^2)", "O(n^3)", "O(2^n)", "O(n!)", "O(?)"}

AllCanonical(r) ==
    /\ r.result.time.bigO \in CanonicalLabels
    /\ \A k \in 1..Len(r.pool) : r.pool[k].bigO \in CanonicalLabels

\* C4: every candidate of the pool and the returned time.bigO carry one of
\* the fixed canonical labels or "O(?)", whatever the text, the language and
\* the path.
LabelsCanonical ==
    /\ lex # Unset => AllCanonical(lex)
    /\ cst # Unset => AllCanonical(cst)
    /\ web # Unset => AllCanonical(web)

\* C5: fallback equivalence: when analyse and the CST path observe the same
\* signals (loop count, maximum depth, logarithmic flag, sort presence, and
\* the same recursive functions with the same class each), they return the
\* same time.bigO.
FallbackEquivalence ==
    (lex # Unset /\ cst # Unset /\ lex.signals = cst.signals) =>
        lex.result.time.bigO = cst.result.time.bigO

\* The rationale analyse pushes together with the candidate c.
RationaleOf(c, loops) ==
    CASE c.confidence = 65 -> WhySort
      [] c.confidence \in {52, 76} -> WhyRecursion(c.bigO)
      [] c.confidence = 62 -> WhyLoops(loops.count, loops.maxDepth, c.bigO)
      [] c.confidence = 30 -> WhyNoLoops
      [] c.confidence = 70 -> WhySortLoop

\* The rationale the CST path pushes together with the candidate c.
ts_RationaleOf(c, loops, ir) ==
    CASE c.confidence = 35 -> ts_WhyNone
      [] c.confidence = 72 -> ts_WhyLoops(loops.count, loops.maxDepth, c.bigO)
      [] c.confidence = 70 -> ts_WhySort(Len(ir.sortingCalls))
      [] c.confidence = 76 -> ts_WhySortLoop
      [] c.confidence \in {52, 78} -> ts_WhyRecursion(c.bigO)
      [] c.confidence = 25 -> ts_WhyWeak

\* The entries of the CST path's why that do not belong to a candidate: the
\* opening entry and the one on library operations.
ts_Unpaired(ir) ==
    {ts_WhyIntro} \cup (IF Len(ir.libraryOps) > 0 THEN {ts_WhyLibrary(ir.libraryOps)} ELSE {})

\* C10: the rationale trail lists every candidate of the pool, in the order
\* of the pool, one entry each, whichever candidate wins: in analyse the why
\* is exactly the candidates' rationales in pool order, in the CST path it is
\* so once the opening entry and the library entry are set aside.
WhyFollowsPool ==
    /\ lex # Unset =>
           lex.result.why =
               [k \in 1..Len(lex.pool) |-> RationaleOf(lex.pool[k], lex.result.loops)]
    /\ cst # Unset =>
           SelectSeq(cst.result.why, LAMBDA w : w \notin ts_Unpaired(cst.ir)) =
               [k \in 1..Len(cst.pool) |->
                   ts_RationaleOf(cst.pool[k], cst.result.loops, cst.ir)]

\* Both paths have resolved a pool of three or more candidates in which the
\* winner is not the candidate contributed last.
WhyFollowsPoolWitness ==
    /\ lex # Unset
    /\ cst # Unset
    /\ Len(lex.pool) >= 3
    /\ Len(cst.pool) >= 3
    /\ lex.result.time # lex.pool[Len(lex.pool)]
    /\ cst.result.time # cst.pool[Len(cst.pool)]

(***************************************************************************)
(* analyse called again and again: the loop regexes of PROFILES are shared *)
(* by all calls, and every call leaves its lastIndex values behind.        *)
(***************************************************************************)
MaxCallLines == 1

InitDet ==
    /\ idx = ZeroIndex
    /\ NoInput /\ NoStrip /\ NoPick /\ NoLex /\ NoDet /\ NoScan /\ NoAsync

\* The lines the repeated calls are made of: those that hold the word of a
\* loop regex, and one that holds none.
HasLoopWord(ln) == \E k \in 1..Len(ln) : ln[k] \in {"for", "while", "do"}

CallLines(l) ==
    {ln \in LinesOf(l) : HasLoopWord(ln)}
        \cup {IF l = "python" THEN <<" ", "i", " ", "*", "=", " ", "2">> ELSE <<"}">>}

\* The texts a call with the tag t is made with (a tag without a profile
\* gets the Python texts).
CallTexts(t) ==
    LET l == IF resolveLang(t) \in Langs THEN resolveLang(t) ELSE "python"
    IN  {JoinLines(ls) : ls \in UNION {[1..k -> CallLines(l)] : k \in 0..MaxCallLines}}

\* analyse(c, t), run on the regexes as the calls before have left them; the
\* call leaves them in a new state for the calls to come
EarlierCall ==
    /\ last = Unset
    /\ \E t \in Tags : \E c \in CallTexts(t) :
           idx' = analyse(idx, c, t).idx
    /\ UNCHANGED <<inputVars, scan, stripVars, pickVars, lexVars, last, asyncVars>>

\* The call under study: analyse(c, t) after any number of earlier calls
AnalyseCall ==
    /\ last = Unset
    /\ \E t \in Tags : \E c \in CallTexts(t) :
           LET r == analyse(idx, c, t)
           IN  /\ last' = [lang |-> t, code |-> c, before |-> idx, threw |-> r.threw,
                           result |-> IF r.threw THEN Unset ELSE r.result]
               /\ idx' = r.idx
    /\ UNCHANGED <<inputVars, scan, stripVars, pickVars, lexVars, asyncVars>>

NextDet == EarlierCall \/ AnalyseCall

SpecDet == InitDet /\ [][NextDet]_vars

\* C8: determinism: whatever calls ran before, analyse(s, L) returns the
\* result it returns on freshly loaded regexes (all lastIndex 0), so two
\* calls with the same (s, L) return identical results.
Deterministic ==
    last # Unset =>
        LET fresh == analyse(ZeroIndex, last.code, last.lang)
        IN  /\ last.threw = fresh.threw
            /\ ~last.threw => last.result = fresh.result

\* A call that found a loop has run on regexes that an earlier call left
\* with a lastIndex other than 0.
DeterministicWitness ==
    /\ last # Unset
    /\ ~last.threw
    /\ last.result.loops.count > 0
    /\ last.result.loops.maxDepth > 0
    /\ \E re \in RegexIds : re[1] = resolveLang(last.lang) /\ last.before[re] # 0

(***************************************************************************)
(* analyseWithTreeSitter: concurrent calls, the import of the parser       *)
(* module, and the per-language grammar loads behind languageCache.  All   *)
(* calls of a behaviour are made with the same source text, code, and with *)
(* any tags.  A call that has settled leaves the bag of calls in flight.   *)
(***************************************************************************)
MaxCalls == 2

\* The source texts the calls are made with: the empty text, and a line that
\* is a sort call with a comment in Python and a statement in a for loop's
\* words in the languages with braces.
SampleTexts ==
    { << >>, <<"x", " ", "=", " ", "sorted", "(", "arr", ")", " ", "#", " ", "for">> }

Init ==
    /\ code \in SampleTexts
    /\ lang = "python"
    /\ idx = ZeroIndex
    /\ NoStrip /\ NoPick /\ NoLex /\ NoDet /\ NoScan /\ NoAsync

\* A faulty getLanguage: a cached promise that has rejected is dropped and
\* the load is started again.
getLanguageRetrying(cache, ld, l) ==
    IF cache[l] \notin {"absent", "rejected"}
    THEN [cache |-> cache, loader |-> ld]
    ELSE [cache |-> [cache EXCEPT ![l] = "pending"],
          loader |-> [ld EXCEPT ![l] = "awaitModule"]]

\* A faulty getLanguage: the cache is not consulted.
getLanguageUncached(cache, ld, l) ==
    [cache |-> [cache EXCEPT ![l] = "pending"],
     loader |-> [ld EXCEPT ![l] = "awaitModule"]]

\* getLanguage(l): the cached promise if there is one; otherwise the async
\* loader is started (it runs up to its first await) and its promise cached.
getLanguage(cache, ld, l) ==
    IF cache[l] # "absent"
    THEN [cache |-> cache, loader |-> ld]
    ELSE [cache |-> [cache EXCEPT ![l] = "pending"],
          loader |-> [ld EXCEPT ![l] = "awaitModule"]]

One(c) == SetToBag({c})

\* analyseWithTreeSitter(code, tag) up to its first await (lines 93-96)
Call(tag) ==
    /\ started < MaxCalls
    /\ started' = started + 1
    /\ calls' = calls (+) One([chosenLang |-> tag, pc |-> "awaitModule"])
    /\ UNCHANGED <<inputVars, scan, stripVars, pickVars, lexVars, idx, last,
                   parserModulePromise, languageCache, loader, loads, settled>>

\* dynamicImporter(...).then(mod => mod.default) fulfils
ImportFulfilled ==
    /\ parserModulePromise = "pending"
    /\ parserModulePromise' = "fulfilled"
    /\ UNCHANGED <<inputVars, scan, stripVars, pickVars, lexVars, idx, last,
                   languageCache, loader, loads, started, calls, settled>>

\* the import rejects
ImportRejected ==
    /\ parserModulePromise = "pending"
    /\ parserModulePromise' = "rejected"
    /\ UNCHANGED <<inputVars, scan, stripVars, pickVars, lexVars, idx, last,
                   languageCache, loader, loads, started, calls, settled>>

\* The catch block (lines 156-162) of call c, reached after the failure f:
\* analyse(code, lang) and the disclosure in front of its why; when analyse
\* throws, the promise of the call rejects.
Catch(c, f) ==
    LET r == analyse(idx, code, resolveLang(c.chosenLang))
    IN  /\ calls' = calls (-) One(c)
        /\ settled' = [chosenLang |-> c.chosenLang,
                       failure |-> f,
                       status |-> IF r.threw THEN "rejected" ELSE "fulfilled",
                       value |-> IF r.threw THEN Unset ELSE FallbackResult(r.result)]
        /\ idx' = r.idx

\* Call c resumes behind `await parserModulePromise` and calls getLanguage
\* (lines 96-97)
AfterImport(c) ==
    /\ c.pc = "awaitModule"
    /\ parserModulePromise = "fulfilled"
    /\ LET g == getLanguage(languageCache, loader, resolveLang(c.chosenLang))
       IN  /\ languageCache' = g.cache
           /\ loader' = g.loader
    /\ calls' = (calls (-) One(c)) (+) One([c EXCEPT !.pc = "awaitLanguage"])
    /\ UNCHANGED <<inputVars, scan, stripVars, pickVars, lexVars, idx, last,
                   parserModulePromise, loads, started, settled>>

\* `await parserModulePromise` throws in call c
ImportFailed(c) ==
    /\ c.pc = "awaitModule"
    /\ parserModulePromise = "rejected"
    /\ Catch(c, "import")
    /\ UNCHANGED <<inputVars, scan, stripVars, pickVars, lexVars, last,
                   parserModulePromise, languageCache, loader, loads, started>>

\* The loader of l resumes behind `await parserModulePromise` and calls
\* Parser.init() (lines 83-84)
LoaderGotModule(l) ==
    /\ loader[l] = "awaitModule"
    /\ parserModulePromise = "fulfilled"
    /\ loader' = [loader EXCEPT ![l] = "awaitInit"]
    /\ UNCHANGED <<inputVars, scan, stripVars, pickVars, lexVars, idx, last,
                   parserModulePromise, languageCache, loads, started, calls, settled>>

\* Parser.init() fulfils: the loader calls Parser.Language.load (line 85)
InitFulfilled(l) ==
    /\ loader[l] = "awaitInit"
    /\ loader' = [loader EXCEPT ![l] = "awaitLoad"]
    /\ loads' = [loads EXCEPT ![l] = @ + 1]
    /\ UNCHANGED <<inputVars, scan, stripVars, pickVars, lexVars, idx, last,
                   parserModulePromise, languageCache, started, calls, settled>>

\* Parser.init() rejects, and with it the cached promise
InitRejected(l) ==
    /\ loader[l] = "awaitInit"
    /\ loader' = [loader EXCEPT ![l] = "done"]
    /\ languageCache' = [languageCache EXCEPT ![l] = "rejected"]
    /\ UNCHANGED <<inputVars, scan, stripVars, pickVars, lexVars, idx, last,
                   parserModulePromise, loads, started, calls, settled>>

\* The grammar is loaded.  LANGUAGE_WASM_URLS has no entry for a tag that is
\* not a language, so there is nothing to load for it.
LoadFulfilled(l) ==
    /\ loader[l] = "awaitLoad"
    /\ l \in Langs
    /\ loader' = [loader EXCEPT ![l] = "done"]
    /\ languageCache' = [languageCache EXCEPT ![l] = "fulfilled"]
    /\ UNCHANGED <<inputVars, scan, stripVars, pickVars, lexVars, idx, last,
                   parserModulePromise, loads, started, calls, settled>>

\* The grammar load fails
LoadRejected(l) ==
    /\ loader[l] = "awaitLoad"
    /\ loader' = [loader EXCEPT ![l] = "done"]
    /\ languageCache' = [languageCache EXCEPT ![l] = "rejected"]
    /\ UNCHANGED <<inputVars, scan, stripVars, pickVars, lexVars, idx, last,
                   parserModulePromise, loads, started, calls, settled>>

\* Call c resumes with the language: it parses the text and analyses the
\* tree (lines 98-155)
ParseAndAnalyse(c) ==
    /\ c.pc = "awaitLanguage"
    /\ languageCache[resolveLang(c.chosenLang)] = "fulfilled"
    /\ \E t \in Trees(code, resolveLang(c.chosenLang)) :
           settled' = [chosenLang |-> c.chosenLang,
                       failure |-> "none",
                       status |-> "fulfilled",
                       value |-> ts_analyseTree(t, resolveLang(c.chosenLang)).result]
    /\ calls' = calls (-) One(c)
    /\ UNCHANGED <<inputVars, scan, stripVars, pickVars, lexVars, idx, last,
                   parserModulePromise, languageCache, loader, loads, started>>

\* new Parser(), setLanguage or parse throws, or the walk over the tree does
ParseOrWalkThrows(c) ==
    /\ c.pc = "awaitLanguage"
    /\ languageCache[resolveLang(c.chosenLang)] = "fulfilled"
    /\ \E f \in {"parse", "walk"} : Catch(c, f)
    /\ UNCHANGED <<inputVars, scan, stripVars, pickVars, lexVars, last,
                   parserModulePromise, languageCache, loader, loads, started>>

\* A faulty await: a call that waits for a grammar gives up while the load
\* is still pending and takes the fallback, as a timeout would make it do.
LanguageFailedOrTimedOut(c) ==
    /\ c.pc = "awaitLanguage"
    /\ languageCache[resolveLang(c.chosenLang)] \in {"rejected", "pending"}
    /\ Catch(c, "load")
    /\ UNCHANGED <<inputVars, scan, stripVars, pickVars, lexVars, last,
                   parserModulePromise, languageCache, loader, loads, started>>

\* `await getLanguage(lang)` throws in call c
LanguageFailed(c) ==
    /\ c.pc = "awaitLanguage"
    /\ languageCache[resolveLang(c.chosenLang)] = "rejected"
    /\ Catch(c, "load")
    /\ UNCHANGED <<inputVars, scan, stripVars, pickVars, lexVars, last,
                   parserModulePromise, languageCache, loader, loads, started>>

Next ==
    \/ \E tag \in Tags : Call(tag)
    \/ ImportFulfilled
    \/ ImportRejected
    \/ \E c \in BagToSet(calls) :
           \/ AfterImport(c)
           \/ ImportFailed(c)
           \/ ParseAndAnalyse(c)
           \/ ParseOrWalkThrows(c)
           \/ LanguageFailed(c)
    \/ \E l \in CacheKeys :
           \/ LoaderGotModule(l)
           \/ InitFulfilled(l)
           \/ InitRejected(l)
           \/ LoadFulfilled(l)
           \/ LoadRejected(l)

Spec == Init /\ [][Next]_vars

\* C1: a call with a tag of the type Lang never rejects: when the import of
\* the parser module, the grammar load, the parse or the walk over the tree
\* fails, the call resolves with the result of analyse(code, lang), loops,
\* tags and time unchanged, and with the disclosure entry in front of its why.
FallbackNeverRejects ==
    (settled # Unset /\ settled.failure # "none"
        /\ resolveLang(settled.chosenLang) \in Langs) =>
        LET lexical == analyse(ZeroIndex, code, resolveLang(settled.chosenLang)).result
        IN  /\ settled.status = "fulfilled"
            /\ settled.value.loops = lexical.loops
            /\ settled.value.tags = lexical.tags
            /\ settled.value.time = lexical.time
            /\ settled.value.why = <<ts_WhyFallback>> \o lexical.why

\* After another call has settled, a call on a text with a loop has lost its
\* grammar load and has resolved with the lexical result.
FallbackNeverRejectsWitness ==
    /\ settled # Unset
    /\ started = 2
    /\ calls = EmptyBag
    /\ settled.failure = "load"
    /\ settled.status = "fulfilled"
    /\ settled.value.loops.count = 1
    /\ Len(settled.value.why) = 2

\* C2: in every interleaving of the calls at most one grammar load
\* (Parser.Language.load) is issued per language tag.
SingleFlight == \A l \in CacheKeys : loads[l] <= 1

\* Two calls in flight await the language of one tag, whose grammar load has
\* been issued once.
SingleFlightWitness ==
    \E c \in BagToSet(calls), d \in BagToSet(calls) :
        /\ c.pc = "awaitLanguage"
        /\ d.pc = "awaitLanguage"
        /\ c # d \/ CopiesIn(c, calls) >= 2
        /\ resolveLang(c.chosenLang) = resolveLang(d.chosenLang)
        /\ loads[resolveLang(c.chosenLang)] = 1

\* C7: whatever string is passed as the language tag, the call does not
\* reject; and the call with "auto" settles as the call with "python" does.
TagNeverAnError ==
    settled # Unset =>
        /\ settled.status = "fulfilled"
        /\ settled.chosenLang = "auto" /\ settled.failure # "none" =>
               settled.value = FallbackResult(analyse(ZeroIndex, code, "python").result)

(***************************************************************************)
(* Texts in which no signal fires.                                         *)
(***************************************************************************)
\* The result a path returns when it has seen no loop, sort or recursion.
ConstantAtMost(r, confidence) ==
    /\ r.loops = [count |-> 0, maxDepth |-> 0]
    /\ r.time.bigO = "O(1)"
    /\ r.time.confidence <= confidence

NoSignalIn(signals) ==
    signals.loopCount = 0 /\ ~signals.hasSort /\ signals.recursive = {}

\* C11: for the empty text, and for every text in which no loop, sort or
\* recursion signal fires, analyse (also behind the catch block of
\* analyseWithTreeSitter), the CST path and the web draft return loops.count
\* = 0, loops.maxDepth = 0, time.bigO = "O(1)" and a confidence of at most
\* 0.35.
NoSignalIsConstant ==
    /\ (lex # Unset /\ NoSignalIn(lex.signals)) =>
           /\ ConstantAtMost(lex.result, 35)
           /\ ConstantAtMost(FallbackResult(lex.result), 35)
    /\ (cst # Unset /\ NoSignalIn(cst.signals)) => ConstantAtMost(cst.result, 35)
    /\ (web # Unset /\ LexSignals(code, lang).loopCount = 0
            /\ ~LexSignals(code, lang).hasSort) => ConstantAtMost(web.result, 35)

\* The empty text has gone through analyse and through the CST path.
NoSignalIsConstantWitness ==
    /\ code = << >>
    /\ lex # Unset
    /\ cst # Unset
    /\ lex.result.time = [bigO |-> "O(1)", confidence |-> 30]
    /\ cst.result.time = [bigO |-> "O(1)", confidence |-> 35]

(***************************************************************************)
(* The loop tracker of analyse, line by line: the for loop over the lines  *)
(* of the stripped text (analyse.ts 129-167, web/src/engine/analyse.ts     *)
(* 160-206), one iteration per step, and then the rest of the call.        *)
(* scan.before is the tracker before the line scanned last, scan.peak the  *)
(* largest stack right after a push, and scan.open the numbers of the      *)
(* lines whose scopes are on the stack, bottom first.                      *)
(***************************************************************************)
MaxTrackLines == 3

\* The lines the scanned texts are made of.  With braces: a loop header with
\* its opening brace, a closing brace, a loop with its body on its line, a
\* closing brace followed by a loop header, a statement, and a loop header
\* behind an opening brace.  With indentation: a loop header and a statement
\* at three indentations, and a blank line.
BraceLines ==
    \* for (i = 0; i < n; i++) {
    { <<"for", " ", "(", "i", " ", "=", " ", "0", ";", " ", "i", " ", "<", " ", "n", ";", " ", "i", "+", "+", ")", " ", "{">>,
    \* }
      <<"}">>,
    \* while (i < n) { i *= 2; }
      <<"while", " ", "(", "i", " ", "<", " ", "n", ")", " ", "{", " ", "i", " ", "*", "=", " ", "2", ";", " ", "}">>,
    \* } while (i < n) {
      <<"}", " ", "while", " ", "(", "i", " ", "<", " ", "n", ")", " ", "{">>,
    \*  x++;
      <<" ", "x", "+", "+", ";">>,
    \* { for (i = 0; i < n; i++) {
      <<"{", " ", "for", " ", "(", "i", " ", "=", " ", "0", ";", " ", "i", " ", "<", " ", "n", ";", " ", "i", "+", "+", ")", " ", "{">> }

IndentBodies ==
    \* for i in range(n):
    { <<"for", " ", "i", " ", "in", " ", "range", "(", "n", ")", ":">>,
    \* x
      <<"x">> }

IndentLines ==
    {[k \in 1..d |-> " "] \o b : d \in 0..2, b \in IndentBodies} \cup {<<" ">>}

TrackLines(l) == IF usesBraces(l) THEN BraceLines ELSE IndentLines

TrackTexts(l) ==
    {JoinLines(ls) : ls \in UNION {[1..k -> TrackLines(l)] : k \in 0..MaxTrackLines}}

InitTrack ==
    /\ idx = ZeroIndex
    /\ NoStrip /\ NoPick /\ NoLex /\ NoDet /\ NoAsync
    /\ \E l \in Langs : \E c \in TrackTexts(l) : \E draft \in BOOLEAN :
           /\ lang = l
           /\ code = c
           /\ scan = [draft |-> draft,
                   lines |-> SplitLines(removeComments(l, c)),
                   k |-> 1,
                   before |-> Unset,
                   st |-> TrackerInit(ZeroIndex),
                   peak |-> 0,
                   open |-> << >>,
                   result |-> Unset]

\* One iteration of `for (const line of lines)`
ScanLine ==
    /\ scan # Unset
    /\ scan.k <= Len(scan.lines)
    /\ LET line == scan.lines[scan.k]
           st == IF usesBraces(lang) THEN BraceLine(scan.st, line, lang, scan.draft)
                                     ELSE IndentLine(scan.st, line, lang, scan.draft)
           pushed == Trim(line) # << >> /\ SomeLoop(scan.st.idx, lang, Trim(line), 1).ok
       IN  scan' = [scan EXCEPT !.k = @ + 1,
                                !.before = scan.st,
                                !.st = st,
                                !.peak = IF pushed THEN Max(@, Len(st.stack)) ELSE @,
                                !.open = IF pushed
                                         THEN Append(SubSeq(@, 1, Len(st.stack) - 1), scan.k)
                                         ELSE SubSeq(@, 1, Len(st.stack))]
    /\ UNCHANGED <<inputVars, stripVars, pickVars, lexVars, idx, last, asyncVars>>

\* The lines are done: the rest of analyse (from line 169 on, from line 211
\* on in the draft)
ScanDone ==
    /\ scan # Unset
    /\ scan.k > Len(scan.lines)
    /\ scan.result = Unset
    /\ scan' = [scan EXCEPT !.result =
                    IF scan.draft THEN web_analyseIn(ZeroIndex, code, lang).result
                                  ELSE analyseIn(ZeroIndex, code, lang).result]
    /\ UNCHANGED <<inputVars, stripVars, pickVars, lexVars, idx, last, asyncVars>>

NextTrack == ScanLine \/ ScanDone

SpecTrack == InitTrack /\ [][NextTrack]_vars

\* A line has been scanned; ScannedLine is that line, trimmed.
Scanned == scan # Unset /\ scan.before # Unset
ScannedLine == Trim(scan.lines[scan.k - 1])

LoopWords(l) == {loopRegexes(l)[k] : k \in 1..Len(loopRegexes(l))}
HoldsLoopWord(t, l) == \E k \in 1..Len(t) : t[k] \in LoopWords(l)

\* The step of the brace branch on one line, as the order of its parts fixes
\* it: the count is lowered by the closing braces (not below 0), every scope
\* of a level above the lowered count is popped, a loop line pushes a scope
\* of level count + 1 and maxDepth follows the stack size, and the opening
\* braces are added to the count last.  An empty line changes nothing.
BraceStepOrder ==
    (Scanned /\ usesBraces(lang)) =>
        LET t == ScannedLine
            lowered == Max(0, scan.before.braceDepth - CountTok(t, "}"))
            kept == SelectSeq(scan.before.stack, LAMBDA e : e.level <= lowered)
        IN  IF t = << >> THEN scan.st = scan.before
            ELSE /\ scan.st.braceDepth = lowered + CountTok(t, "{")
                 /\ IF HoldsLoopWord(t, lang)
                    THEN /\ Len(scan.st.stack) = Len(kept) + 1
                         /\ SubSeq(scan.st.stack, 1, Len(kept)) = kept
                         /\ scan.st.stack[Len(kept) + 1].level = lowered + 1
                         /\ scan.st.maxDepth = Max(scan.before.maxDepth, Len(kept) + 1)
                    ELSE /\ scan.st.stack = kept
                         /\ scan.st.maxDepth = scan.before.maxDepth

\* A loop header line that carries its own opening brace, and nothing else
\* in braces.
OwnBraceHeader(t, l) ==
    /\ HoldsLoopWord(t, l)
    /\ CountTok(t, "{") = 1
    /\ CountTok(t, "}") = 0
    /\ \A a \in 1..Len(t), b \in 1..Len(t) : (t[a] \in LoopWords(l) /\ t[b] = "{") => a < b

\* The numbers of the lines scanned so far that are such headers, when every
\* other line scanned so far holds neither a loop word nor a brace.
HeaderLines ==
    {j \in 1..(scan.k - 1) : OwnBraceHeader(Trim(scan.lines[j]), lang)}

HeadersOnly ==
    \A j \in (1..(scan.k - 1)) \ HeaderLines :
        /\ ~HoldsLoopWord(scan.lines[j], lang)
        /\ CountTok(scan.lines[j], "{") + CountTok(scan.lines[j], "}") = 0

\* k loops nested with a header line and an opening brace each give maxDepth
\* k; two of them, bounded by n, give maxDepth 2 and O(n^2).
NestedHeaderDepth ==
    (scan # Unset /\ usesBraces(lang) /\ HeadersOnly) =>
        /\ scan.st.maxDepth = Cardinality(HeaderLines)
        /\ Len(scan.st.stack) = Cardinality(HeaderLines)
        /\ scan.result # Unset =>
               /\ scan.result.loops.maxDepth = Cardinality(HeaderLines)
               /\ (Cardinality(HeaderLines) = 2
                      /\ \A j \in HeaderLines : BoundOf(Trim(scan.lines[j]), lang) = <<"n">>)
                      => scan.result.time.bigO = "O(n^2)"

\* Where the braces of the scanned text match: the text as one sequence of
\* tokens, the index of the first token of line j in it, and for an opening
\* brace at p the index of the closing brace that matches it (0 when the
\* text ends before).
ScanText == JoinLines(scan.lines)

RECURSIVE LineStart(_, _)
LineStart(lines, j) ==
    IF j <= 1 THEN 1 ELSE LineStart(lines, j - 1) + Len(lines[j - 1]) + 1

Balance(s, p, q) == CountTok(SubSeq(s, p, q), "{") - CountTok(SubSeq(s, p, q), "}")

MatchOf(s, p) ==
    IF \E q \in p..Len(s) : Balance(s, p, q) = 0
    THEN CHOOSE q \in p..Len(s) :
             Balance(s, p, q) = 0 /\ \A m \in p..(q - 1) : Balance(s, p, m) # 0
    ELSE 0

\* The index in the text of the first loop word of line j, and of the first
\* opening brace behind it on that line (0 when there is none).
LoopWordAt(j) ==
    LET ln == scan.lines[j]
    IN  LineStart(scan.lines, j) - 1
            + (CHOOSE a \in 1..Len(ln) :
                   ln[a] \in LoopWords(lang) /\ \A b \in 1..(a - 1) : ln[b] \notin LoopWords(lang))

OwnBraceAt(j) ==
    LET lineEnd == LineStart(scan.lines, j) + Len(scan.lines[j]) - 1
        braces == {p \in LoopWordAt(j)..lineEnd : ScanText[p] = "{"}
    IN  IF braces = {} THEN 0 ELSE CHOOSE p \in braces : \A q \in braces : p <= q

\* The block of the loop of line j is closed before the loop word of line i.
ClosedBefore(j, i) ==
    /\ OwnBraceAt(j) # 0
    /\ MatchOf(ScanText, OwnBraceAt(j)) # 0
    /\ MatchOf(ScanText, OwnBraceAt(j)) < LoopWordAt(i)

\* The loop of the line scanned last is not counted as nested in a loop whose
\* closing brace it follows: no scope under its own belongs to a loop that is
\* closed before it.
NotNestedInClosed ==
    \A m \in 1..(Len(scan.open) - 1) : ~ClosedBefore(scan.open[m], scan.k - 1)

\* On the line t the closing braces stand before the loop words, and the loop
\* words before the opening braces.
OrderedLine(t, l) ==
    \A a \in 1..Len(t), b \in 1..Len(t) :
        /\ (t[a] = "}" /\ (t[b] = "{" \/ t[b] \in LoopWords(l))) => a < b
        /\ (t[a] \in LoopWords(l) /\ t[b] = "{") => a < b

\* C12 as stated: the order of the step of the brace branch, the depth of
\* nested headers, and: a loop that follows the closing brace of a loop
\* before it is never counted as nested in that loop.
BraceTrackerAsStated ==
    /\ BraceStepOrder
    /\ NestedHeaderDepth
    /\ (Scanned /\ usesBraces(lang) /\ HoldsLoopWord(ScannedLine, lang)) => NotNestedInClosed

\* C12, amended: the order of the step of the brace branch and the depth of
\* nested headers as stated; a loop that follows the closing brace of a loop
\* before it is not counted as nested in that loop when on every line the
\* closing braces stand before the loop word and the opening braces behind
\* it (a closing brace behind an opening brace of its own line is taken off
\* the count before that opening brace is added).
BraceTracker ==
    /\ BraceStepOrder
    /\ NestedHeaderDepth
    /\ (Scanned /\ usesBraces(lang) /\ HoldsLoopWord(ScannedLine, lang)
            /\ \A j \in 1..(scan.k - 1) : OrderedLine(scan.lines[j], lang))
           => NotNestedInClosed

\* Two nested loops and then a loop on the line of the inner loop's closing
\* brace: the call has returned maxDepth 2 and O(n^2), and the last loop is
\* on the stack with the outer loop only.
BraceTrackerWitness ==
    /\ scan # Unset
    /\ usesBraces(lang)
    /\ scan.result # Unset
    /\ Len(scan.lines) = 3
    /\ OwnBraceHeader(scan.lines[1], lang)
    /\ OwnBraceHeader(scan.lines[2], lang)
    /\ At(scan.lines[3], 1) = "}"
    /\ scan.open = <<1, 3>>
    /\ ClosedBefore(2, 3)
    /\ scan.result.loops.maxDepth = 2
    /\ scan.result.time.bigO = "O(n^2)"

\* The step of the indentation branch on one line: every scope of a level at
\* or above the indentation of the line is popped before the loop is
\* detected, and a loop line pushes a scope at its indentation.
IndentStepOrder ==
    (Scanned /\ ~usesBraces(lang)) =>
        LET t == ScannedLine
            indent == Indent(scan.lines[scan.k - 1])
            kept == SelectSeq(scan.before.stack, LAMBDA e : e.level < indent)
        IN  IF t = << >> THEN scan.st = scan.before
            ELSE IF HoldsLoopWord(t, lang)
            THEN /\ Len(scan.st.stack) = Len(kept) + 1
                 /\ SubSeq(scan.st.stack, 1, Len(kept)) = kept
                 /\ scan.st.stack[Len(kept) + 1].level = indent
            ELSE scan.st.stack = kept

\* C13: in the indentation branch every scope of a level >= the indentation
\* of the line is popped before loop detection; so after any sequence of
\* lines the levels on the stack increase strictly from bottom to top, no two
\* loops of the same indentation are open together, and maxDepth (also the
\* one returned) is the largest stack size reached right after a push.
IndentTracker ==
    /\ IndentStepOrder
    /\ (scan # Unset /\ ~usesBraces(lang)) =>
           /\ \A a \in 1..Len(scan.st.stack), b \in 1..Len(scan.st.stack) :
                  a < b => scan.st.stack[a].level < scan.st.stack[b].level
           /\ Len(scan.open) = Len(scan.st.stack)
           /\ \A a \in 1..Len(scan.open) :
                  scan.st.stack[a].level = Indent(scan.lines[scan.open[a]])
           /\ \A a \in 1..Len(scan.open), b \in 1..Len(scan.open) :
                  a # b => Indent(scan.lines[scan.open[a]]) # Indent(scan.lines[scan.open[b]])
           /\ scan.st.maxDepth = scan.peak
           /\ scan.result # Unset => scan.result.loops.maxDepth = scan.peak

\* A loop, a loop nested in it and another loop at the indentation of the
\* second: the third has taken the place of the second on the stack, and the
\* call has returned maxDepth 2.
IndentTrackerWitness ==
    /\ scan # Unset
    /\ lang = "python"
    /\ scan.result # Unset
    /\ Len(scan.lines) = 3
    /\ \A j \in 1..3 : HoldsLoopWord(scan.lines[j], lang)
    /\ Indent(scan.lines[1]) = 0
    /\ Indent(scan.lines[2]) = 1
    /\ Indent(scan.lines[3]) = 1
    /\ scan.open = <<1, 3>>
    /\ scan.peak = 2
    /\ scan.result.loops.maxDepth = 2

(***************************************************************************)
(* Recursion, sort and logarithmic signals in the results of SpecLex.      *)
(***************************************************************************)
Has(seq, x) == \E k \in 1..Len(seq) : seq[k] = x

\* The highest class among the flagged functions of a path's signals.
HighestClass(signals) ==
    CHOOSE b \in {r[2] : r \in signals.recursive} :
        \A r \in signals.recursive : rankBigO(b) >= rankBigO(r[2])

\* The number of call-site occurrences of the function names of a text.
Occurrences(text) ==
    LET names == FunctionNames(text, 1, << >>)
    IN  {Cardinality(CallSites(text, names[k])) : k \in 1..Len(names)}

\* Some function of the text has two self-calls besides its definition, and
\* no return expression of the text multiplies by a call.
TwoSelfCallsNoProduct(text) == 3 \in Occurrences(text) /\ ~ReturnTimesCall(text)

\* C14: a function name with at most one call-site occurrence is not
\* flagged; a text with a function of two recursive self-calls and no
\* multiplicative return gets the tag "recursion" and time.bigO = "O(2^n)"
\* on the lexical and on the CST path; and when several functions are flagged
\* the class reported for the recursion is the highest among theirs.
RecursionClassified ==
    /\ lex # Unset =>
           LET text == removeComments(lang, code)
           IN  /\ (\A n \in Occurrences(text) : n <= 1) => ~Has(lex.result.tags, "recursion")
               /\ TwoSelfCallsNoProduct(text) =>
                      /\ Has(lex.result.tags, "recursion")
                      /\ lex.result.time.bigO = "O(2^n)"
               /\ lex.signals.recursive # {} =>
                      Has(lex.result.why, WhyRecursion(HighestClass(lex.signals)))
    /\ cst # Unset =>
           /\ (\A n \in Occurrences(code) : n <= 1) => ~Has(cst.result.tags, "recursion")
           /\ TwoSelfCallsNoProduct(code) =>
                  /\ Has(cst.result.tags, "recursion")
                  /\ cst.result.time.bigO = "O(2^n)"
           /\ cst.signals.recursive # {} =>
                  Has(cst.result.why, ts_WhyRecursion(HighestClass(cst.signals)))

(***************************************************************************)
(* Texts of loop headers, block ends and sort calls, long enough to nest   *)
(* two loops around a sort call, run through analyse and then through the  *)
(* CST path.                                                               *)
(***************************************************************************)
MaxSortLines == 3

SortLines(l) ==
    {ln \in LinesOf(l) :
        /\ NodeTypeOf(ln, l) \in {"for_statement", "}", "expression_statement"}
        /\ ~detectGlobalLogProgression(ln, l)}

InitSort ==
    /\ lang \in Langs
    /\ code \in {JoinLines(ls) : ls \in UNION {[1..n -> SortLines(lang)] : n \in 1..MaxSortLines}}
    /\ NoStrip /\ NoPick /\ NoLex /\ NoDet /\ NoScan /\ NoAsync
    /\ idx = ZeroIndex

NextSort == RunAnalyse \/ RunTree

SpecSort == InitSort /\ [][NextSort]_vars

\* What C15 says of one result r, picked from pool p on the signals sig, with
\* combined the candidate of the sort + loop pattern.
SortLoopIn(sig, r, p, combined) ==
    (sig.hasSort /\ sig.loopCount > 0) =>
        /\ Has(p, combined)
        /\ rankBigO(r.time.bigO) >= rankBigO("O(n log n)")
        /\ sig.recursive = {} =>
               /\ r.loops.maxDepth = 1 => r.time.bigO = "O(n log n)"
               /\ r.time.bigO # "O(n log n)" <=> r.loops.maxDepth >= 2
               /\ r.loops.maxDepth >= 2 =>
                      /\ r.time.bigO = IF r.loops.maxDepth = 2 THEN "O(n^2)" ELSE "O(n^3)"
                      /\ rankBigO(r.time.bigO) > rankBigO("O(n log n)")

\* C15: whenever a sort call and at least one loop are both detected the pool
\* holds the combined O(n log n) candidate and the result ranks at least
\* O(n log n); with loops of maximum depth 1 and no recursion the result is
\* exactly O(n log n), and the loop class replaces it only when the loops
\* alone rank higher (depth >= 2).
SortWithLoops ==
    /\ lex # Unset =>
           SortLoopIn(lex.signals, lex.result, lex.pool,
                      [bigO |-> "O(n log n)", confidence |-> 70])
    /\ cst # Unset =>
           SortLoopIn(cst.signals, cst.result, cst.pool,
                      [bigO |-> "O(n log n)", confidence |-> 76])

\* A sort call inside two nested loops has been analysed on both paths: the
\* combined candidate is in both pools and the loop class O(n^2) is returned.
SortWithLoopsWitness ==
    /\ lex # Unset /\ cst # Unset
    /\ lex.signals.hasSort /\ cst.signals.hasSort
    /\ lex.result.loops = [count |-> 2, maxDepth |-> 2]
    /\ cst.result.loops = [count |-> 2, maxDepth |-> 2]
    /\ Has(lex.pool, [bigO |-> "O(n log n)", confidence |-> 70])
    /\ Has(cst.pool, [bigO |-> "O(n log n)", confidence |-> 76])
    /\ lex.result.time.bigO = "O(n^2)"
    /\ cst.result.time.bigO = "O(n^2)"

\* Some loop line of the text holds a self-multiplicative or self-divisive
\* update itself, or has a logarithmic bound.
FlaggedLoopLine(text, l) ==
    \E k \in 1..Len(SplitLines(text)) :
        LET line == SplitLines(text)[k]
        IN  /\ Trim(line) # << >>
            /\ SomeLoop(ZeroIndex, l, Trim(line), 1).ok
            /\ (detectLogLoop(line, l) \/ classifyBound(BoundOf(Trim(line), l)) = "log n")

\* C16: for a text with loops of maximum depth 1, no sort call and no
\* recursion, analyse returns time.bigO = "O(log n)" if and only if some loop
\* line itself holds a self-multiplicative or self-divisive update or has a
\* logarithmic bound: an update on a line that is not a loop line does not
\* make the result logarithmic, and a flagged single loop is not reported as
\* "O(n)".
LogPerLoopLine ==
    (/\ lex # Unset
     /\ lex.result.loops.maxDepth = 1
     /\ ~lex.signals.hasSort
     /\ lex.signals.recursive = {})
        => (lex.result.time.bigO = "O(log n)"
                <=> FlaggedLoopLine(removeComments(lang, code), lang))

(***************************************************************************)
(* The traversal of the CST, against the tree it was run on.               *)
(***************************************************************************)
\* The nodes of a forest in depth-first order, each with the number of
\* loop-typed nodes on the path from the root to it, itself included.
RECURSIVE PreOrder(_, _, _)
PreOrder(nodes, above, l) ==
    IF nodes = << >> THEN << >>
    ELSE LET node == Head(nodes)
             isLoop == loopNodes(l, node.type) # ""
             depth == IF isLoop THEN above + 1 ELSE above
         IN  <<[isLoop |-> isLoop, depth |-> depth]>>
                 \o PreOrder(node.kids, depth, l)
                 \o PreOrder(Tail(nodes), above, l)

\* C17: buildNormalizedIr visits every node of the tree once, depth first,
\* and records one loop observation per loop-typed node, whose depth is the
\* number of loop-typed nodes on the path from the root to the node
\* inclusive; loops.count of the CST result is the number of loop-typed
\* nodes and loops.maxDepth the greatest recorded depth, so that
\* maxDepth <= count, and maxDepth = 0 exactly when count = 0.
TraversalCountsLoops ==
    cst # Unset =>
        LET nodes == PreOrder(<<cst.tree>>, 0, lang)
            loopsOnly == SelectSeq(nodes, LAMBDA n : n.isLoop)
            r == cst.result.loops
        IN  /\ cst.ir.visited = Len(nodes)
            /\ Len(cst.ir.loops) = Len(loopsOnly)
            /\ \A k \in 1..Len(loopsOnly) : cst.ir.loops[k].depth = loopsOnly[k].depth
            /\ r.count = Len(loopsOnly)
            /\ \A k \in 1..Len(cst.ir.loops) : cst.ir.loops[k].depth <= r.maxDepth
            /\ r.count > 0 => \E k \in 1..Len(cst.ir.loops) : cst.ir.loops[k].depth = r.maxDepth
            /\ r.maxDepth <= r.count
            /\ r.maxDepth = 0 <=> r.count = 0

\* A tree of a root and three loop nodes, the second inside the first and
\* the third beside it, has been traversed.
TraversalCountsLoopsWitness ==
    /\ cst # Unset
    /\ Len(cst.tree.kids) = 2
    /\ Len(cst.tree.kids[1].kids) = 1
    /\ cst.ir.visited = 4
    /\ [k \in 1..Len(cst.ir.loops) |-> cst.ir.loops[k].depth] = <<1, 2, 1>>
    /\ cst.result.loops = [count |-> 3, maxDepth |-> 2]

(***************************************************************************)
(* Progress of analyseWithTreeSitter.  The continuation of an await runs   *)
(* once the awaited promise has settled (the job queue of the host runs    *)
(* every job it holds), so the steps of the calls and the step of a loader *)
(* behind the import are weakly fair.  Whether and when the import,        *)
(* Parser.init() and Parser.Language.load settle is up to the environment: *)
(* no fairness is assumed of them.                                         *)
(***************************************************************************)
\* The promise that call c awaits has settled.
Ready(c) ==
    \/ c.pc = "awaitModule" /\ parserModulePromise # "pending"
    \/ c.pc = "awaitLanguage"
           /\ languageCache[resolveLang(c.chosenLang)] \in {"fulfilled", "rejected"}

\* What a step of call c (AfterImport, ImportFailed, ParseAndAnalyse,
\* ParseOrWalkThrows or LanguageFailed) does to the bag of calls: the call
\* moves on to its second await, or it settles and leaves the bag.
Resumes(c) ==
    /\ Ready(c)
    /\ calls' = IF c.pc = "awaitModule" /\ parserModulePromise = "fulfilled"
                THEN (calls (-) One(c)) (+) One([c EXCEPT !.pc = "awaitLanguage"])
                ELSE calls (-) One(c)

Fairness ==
    /\ WF_calls(\E c \in BagToSet(calls) : Resumes(c))
    /\ WF_loader(\E l \in CacheKeys : LoaderGotModule(l))

\* The calls whose progress is studied are made with the sort call of
\* SampleTexts.
InitLive == Init /\ code # << >>

SpecLive == InitLive /\ [][Next]_vars /\ Fairness

\* A call for the language l is in flight.
InFlight(l) == \E c \in BagToSet(calls) : resolveLang(c.chosenLang) = l

\* The cached promise of the grammar of l is pending.
Loading(l) == languageCache[l] = "pending"

\* C18: there is no timeout and the calls are isolated per language.  Every
\* call settles provided the import of the parser module settles and the
\* grammar load of its own language settles whenever it is pending, whatever
\* the loads of the other languages do; and a call that awaits a grammar
\* stays in flight for as long as the load of that grammar is pending (no
\* fallback is taken).
NoTimeout ==
    /\ \A l \in CacheKeys :
           (/\ <>(parserModulePromise # "pending")
            /\ [](Loading(l) => <>~Loading(l)))
               => (InFlight(l) ~> ~InFlight(l))
    /\ [][\A c \in BagToSet(calls) :
             (/\ c.pc = "awaitLanguage"
              /\ Loading(resolveLang(c.chosenLang))
              /\ languageCache'[resolveLang(c.chosenLang)] = "pending")
                 => CopiesIn(c, calls') >= CopiesIn(c, calls)]_vars

\* A call for one language has settled on the CST path while the call for
\* another language awaits a grammar whose load is issued and pending.
NoTimeoutWitness ==
    /\ settled # Unset
    /\ settled.failure = "none"
    /\ \E c \in BagToSet(calls) :
           /\ c.pc = "awaitLanguage"
           /\ resolveLang(c.chosenLang) # resolveLang(settled.chosenLang)
           /\ Loading(resolveLang(c.chosenLang))
           /\ loader[resolveLang(c.chosenLang)] = "awaitLoad"
           /\ languageCache[resolveLang(settled.chosenLang)] = "fulfilled"

(***************************************************************************)
(* Grammar loads that have failed.                                         *)
(***************************************************************************)
\* The cached promise of the grammar of l has rejected.
Failed(l) == languageCache[l] = "rejected"

\* C19: a failed grammar load is memoized like a successful one: once the
\* load of a language has rejected, the rejected promise stays in
\* languageCache and no new load is attempted for the language; every call
\* for the language that gets past the import from then on settles with the
\* lexical fallback, the disclosure in front of its why; and the failure
\* leaves the cache entries and loaders of the other languages as they are.
FailureMemoized ==
    [][/\ \A l \in CacheKeys :
             Failed(l) =>
                 /\ languageCache'[l] = "rejected"
                 /\ loader'[l] = loader[l]
                 /\ loads'[l] = loads[l]
       /\ \A l \in CacheKeys :
             (~Failed(l) /\ languageCache'[l] = "rejected") =>
                 \A m \in CacheKeys \ {l} :
                     /\ languageCache'[m] = languageCache[m]
                     /\ loader'[m] = loader[m]
                     /\ loads'[m] = loads[m]
       /\ \A c \in BagToSet(calls) :
             (/\ resolveLang(c.chosenLang) \in Langs
              /\ Failed(resolveLang(c.chosenLang))
              /\ c.pc = "awaitLanguage"
              /\ CopiesIn(c, calls') < CopiesIn(c, calls)) =>
                 /\ settled'.chosenLang = c.chosenLang
                 /\ settled'.failure = "load"
                 /\ settled'.status = "fulfilled"
                 /\ settled'.value =
                        FallbackResult(analyse(ZeroIndex, code, resolveLang(c.chosenLang)).result)
                 /\ Head(settled'.value.why) = ts_WhyFallback]_vars

\* The grammar load of one language has been issued once and has failed,
\* the call for that language has settled, and a call for another language
\* has settled on the CST path after it.
FailureMemoizedWitness ==
    /\ settled # Unset
    /\ settled.failure = "none"
    /\ started = 2
    /\ calls = EmptyBag
    /\ \E l \in Langs :
           /\ Failed(l)
           /\ loads[l] = 1
           /\ resolveLang(settled.chosenLang) # l

====
